---- MODULE Spec2Model ----
(***************************************************************************)
(* Model of the density-of-states data layer of ASE:                       *)
(*   ase/spectrum/dosdata.py   DOSData, GeneralDOSData, RawDOSData,        *)
(*                             GridDOSData                                 *)
(*   ase/dft/doscollection.py  DOSCollection, RawDOSCollection,            *)
(*                             GridDOSCollection                           *)
(* doscollection.py imports the entity classes from ase.dft.dosdata, a     *)
(* module that is not among the sources; ase/spectrum/dosdata.py defines   *)
(* the same classes and is what the entity operators are translated from.  *)
(*                                                                         *)
(* Python objects live in heaps indexed by object identity (1, 2, ...):    *)
(* info dicts, DOSData objects, numpy arrays handed to the caller, and     *)
(* collections.  A reference is the index of the object; 0 is "no object". *)
(* An info dict is the set of its (key, value) items, as in                *)
(* set(info.items()).  Energies and weights are finite floats with integer *)
(* values, so sums and comparisons are exact integer arithmetic.           *)
(***************************************************************************)
EXTENDS Integers, Sequences, FiniteSets, TLC

VARIABLES
    dicts,  \* heap of info dicts: dicts[d] is the set of items of dict d
    ents,   \* heap of DOSData objects: [cls, e, w, info], info a dict reference
    arrs,   \* heap of numpy arrays held by the caller: [val, base, row]
    colls,  \* heap of collection objects
    origin, \* history: how each entity came to be, origin[x] = [by, of, args]
    made,   \* history: how each collection came to be, made[c] = [by, of, args]
    res,    \* the last call: what was called, on what, and what it returned
    steps   \* number of calls made so far

vars == <<dicts, ents, arrs, colls, origin, made, res, steps>>

(***************************************************************************)
(* Bounds of the model.                                                    *)
(***************************************************************************)
MaxSteps == 2

(***************************************************************************)
(* Small helpers.                                                          *)
(***************************************************************************)
Abs(x) == IF x < 0 THEN -x ELSE x

\* The items of a dict have one value per key.
IsInfo(s) == \A p \in s : \A q \in s : p[1] = q[1] => p = q

InfoKeys(s) == {p[1] : p \in s}

\* info[k] = v, info.update({k: v})
DictUpdate(d, k, v) == {p \in d : p[1] # k} \cup {<<k, v>>}

\* del info[k]
DictDel(d, k) == {p \in d : p[1] # k}

(***************************************************************************)
(* numpy                                                                   *)
(***************************************************************************)
\* np.allclose on two scalars with the default rtol = 1e-5, atol = 1e-8:
\* |a - b| <= atol + rtol * |b|.  For integers a, b the left side is an
\* integer, so this is |a - b| <= floor(|b| / 10^5).
IsClose(a, b) == Abs(a - b) <= Abs(b) \div 100000

\* Shapes numpy can broadcast against each other (1-D).
Broadcastable(a, b) == Len(a) = Len(b) \/ Len(a) = 1 \/ Len(b) = 1

BroadcastLen(a, b) == IF Len(a) = 1 THEN Len(b) ELSE Len(a)

At(a, i) == IF Len(a) = 1 THEN a[1] ELSE a[i]

\* np.allclose(a, b) for broadcastable 1-D arrays (True for empty arrays).
AllClose(a, b) == \A i \in 1..BroadcastLen(a, b) : IsClose(At(a, i), At(b, i))

\* np.linspace(start, stop, n) for n >= 1, as numerators over LinDen(n):
\* element i (from 1) is start + (i - 1) * (stop - start) / (n - 1).
LinDen(n) == IF n = 1 THEN 1 ELSE n - 1

linspace(start, stop, n) ==
    [i \in 1..n |-> start * LinDen(n) + (i - 1) * (stop - start)]

\* np.allclose(a, b / den) for equal lengths: |a*den - b| <= den*atol + rtol*|b|
AllCloseScaled(a, b, den) ==
    \A i \in 1..Len(a) : Abs(a[i] * den - b[i]) <= Abs(b[i]) \div 100000

\* a + b elementwise for arrays of equal length
ArrayAdd(a, b) == [i \in 1..Len(a) |-> a[i] + b[i]]

(***************************************************************************)
(* Values passed around by the operations.                                 *)
(*                                                                         *)
(* An entity value is [err, cls, e, w, info, dict]: err is "ok" or the     *)
(* exception raised instead; info is the content of its info dict; dict is *)
(* the reference of that dict when it is an object that already exists,    *)
(* and 0 when the dict was created by the call that made the value.        *)
(***************************************************************************)
Obj(cls, e, w, info, dict) ==
    [err |-> "ok", cls |-> cls, e |-> e, w |-> w, info |-> info, dict |-> dict]

Fail(err) ==
    [err |-> err, cls |-> "", e |-> <<>>, w |-> <<>>, info |-> {}, dict |-> 0]

\* An operand that is not a DOSData (None, a number, a string, ...).
NotDOSData == Obj("object", <<>>, <<>>, {}, 0)

\* The info argument of a constructor.
InfoNone == [kind |-> "None", ref |-> 0, val |-> {}]
InfoDict(d) == [kind |-> "dict", ref |-> d, val |-> dicts[d]]
InfoFresh(v) == [kind |-> "dict", ref |-> 0, val |-> v]
InfoOther == [kind |-> "other", ref |-> 0, val |-> {}]

\* The entity x of the heaps (es, ds) as a value.
EntIn(es, ds, x) == Obj(es[x].cls, es[x].e, es[x].w, ds[es[x].info], es[x].info)

\* The entity x of the heap as a value.
Ent(x) == EntIn(ents, dicts, x)

(***************************************************************************)
(* dosdata.py                                                              *)
(***************************************************************************)
\* DOSData.__init__ taking whatever is no dict for None
DOSData_init_no_type_check(info) ==
    IF info.kind = "dict" THEN Obj("", <<>>, <<>>, info.val, info.ref)
    ELSE Obj("", <<>>, <<>>, {}, 0)

\* DOSData.__init__
DOSData_init(info) ==
    IF info.kind = "None" THEN Obj("", <<>>, <<>>, {}, 0)
    ELSE IF info.kind = "dict" THEN Obj("", <<>>, <<>>, info.val, info.ref)
    ELSE Fail("TypeError")

\* GeneralDOSData.__init__
GeneralDOSData_init(cls, energies, weights, info) ==
    LET base == DOSData_init(info) IN
    IF base.err # "ok" THEN base
    ELSE IF Len(weights) # Len(energies) THEN Fail("ValueError")
    ELSE Obj(cls, energies, weights, base.info, base.dict)

RawDOSData_init(energies, weights, info) ==
    GeneralDOSData_init("RawDOSData", energies, weights, info)

\* GridDOSData.__init__
GridDOSData_init(energies, weights, info) ==
    LET n_entries == Len(energies) IN
    IF n_entries = 0 THEN Fail("IndexError")
    ELSE IF ~AllCloseScaled(energies,
                            linspace(energies[1], energies[n_entries], n_entries),
                            LinDen(n_entries))
    THEN Fail("ValueError")
    ELSE IF Len(weights) # n_entries THEN Fail("ValueError")
    ELSE GeneralDOSData_init("GridDOSData", energies, weights, info)

\* type(self)(energies, weights, info=info)
Construct(cls, energies, weights, info) ==
    IF cls = "GridDOSData" THEN GridDOSData_init(energies, weights, info)
    ELSE RawDOSData_init(energies, weights, info)

\* An array read from row `row` of the _data of entity x: `base` is the
\* entity whose memory it shares (a numpy view), 0 when it owns its memory.
Array(x, row, val, base) == [of |-> x, row |-> row, val |-> val, base |-> base]

\* GeneralDOSData.get_energies without the copy: a view of self._data[0, :]
get_energies_view(x) == Array(x, 1, ents[x].e, x)

\* GeneralDOSData.get_energies: self._data[0, :].copy(), a new array
get_energies(x) == Array(x, 1, ents[x].e, 0)

\* GeneralDOSData.get_weights: self._data[1, :].copy(), a new array
get_weights(x) == Array(x, 2, ents[x].w, 0)

\* GeneralDOSData.copy passing info=self.info, without the .copy()
copy_shared_info(self) ==
    Construct(self.cls, self.e, self.w,
              [kind |-> "dict", ref |-> self.dict, val |-> self.info])

\* GeneralDOSData.copy, on an entity value
copy(self) == Construct(self.cls, self.e, self.w, InfoFresh(self.info))

\* DOSData._almost_equals, on entity values: "True", "False", or the
\* ValueError numpy raises for shapes it cannot broadcast
_almost_equals(self, other) ==
    IF other.cls # self.cls THEN "False"
    ELSE IF self.info # other.info THEN "False"
    ELSE IF ~Broadcastable(self.w, other.w) THEN "ValueError"
    ELSE IF ~AllClose(self.w, other.w) THEN "False"
    ELSE IF AllClose(self.e, other.e) THEN "True" ELSE "False"

\* RawDOSData.__add__ taking the union of the items instead of the
\* intersection
RawDOSData_add_union(self, other) ==
    IF other.cls # "RawDOSData" THEN Fail("TypeError")
    ELSE LET new_info == self.info \cup other.info
             new_object == RawDOSData_init(<<>>, <<>>, InfoFresh(new_info))
         IN  [new_object EXCEPT !.e = self.e \o other.e,
                                !.w = self.w \o other.w]

\* RawDOSData.__add__, on entity values
RawDOSData_add(self, other) ==
    IF other.cls # "RawDOSData" THEN Fail("TypeError")
    ELSE LET new_info == self.info \cap other.info
             new_object == RawDOSData_init(<<>>, <<>>, InfoFresh(new_info))
         IN  [new_object EXCEPT !.e = self.e \o other.e,
                                !.w = self.w \o other.w]

\* GridDOSData.__add__ without the comparison of the axes' values
GridDOSData_add_unchecked(self, other) ==
    IF other.cls # "GridDOSData" THEN Fail("TypeError")
    ELSE IF Len(self.e) # Len(other.e) THEN Fail("ValueError")
    ELSE LET new_info == self.info \cap other.info
             new_weights == ArrayAdd(self.w, other.w)
         IN  GridDOSData_init(self.e, new_weights, InfoFresh(new_info))

\* GridDOSData.__add__, on entity values
GridDOSData_add(self, other) ==
    IF other.cls # "GridDOSData" THEN Fail("TypeError")
    ELSE IF Len(self.e) # Len(other.e) THEN Fail("ValueError")
    ELSE IF ~AllClose(self.e, other.e) THEN Fail("ValueError")
    ELSE LET new_info == self.info \cap other.info
             new_weights == ArrayAdd(self.w, other.w)
         IN  GridDOSData_init(self.e, new_weights, InfoFresh(new_info))

\* self + other for a DOSData self
DOSData_add(self, other) ==
    IF self.cls = "GridDOSData" THEN GridDOSData_add(self, other)
    ELSE RawDOSData_add(self, other)

(***************************************************************************)
(* doscollection.py                                                        *)
(*                                                                         *)
(* A collection object is [cls, data, energies, weights, info]: a          *)
(* DOSCollection or RawDOSCollection keeps the list _data of entity        *)
(* references; a GridDOSCollection keeps the shared axis _energies, the    *)
(* matrix _weights (one row per series) and the list _info of dict         *)
(* references.  A collection value adds err, as for entities; a returned   *)
(* None is the value of class NoneType.                                    *)
(***************************************************************************)
CObj(cls, data, energies, weights, info) ==
    [err |-> "ok", cls |-> cls, data |-> data, energies |-> energies,
     weights |-> weights, info |-> info]

CFail(err) ==
    [err |-> err, cls |-> "", data |-> <<>>, energies |-> <<>>,
     weights |-> <<>>, info |-> <<>>]

CNone == CObj("NoneType", <<>>, <<>>, <<>>, <<>>)

\* An item met while iterating: the entity object (id 0 for an object made
\* on the fly that is on no heap yet) and its value.
Item(id, val) == [err |-> val.err, id |-> id, val |-> val]

\* isinstance(x, base) for x of collection class cls
IsInstance(cls, base) ==
    \/ cls = base
    \/ base = "DOSCollection" /\ cls \in {"RawDOSCollection", "GridDOSCollection"}

\* DOSCollection.__len__, GridDOSCollection.__len__
len(c) == IF c.cls = "GridDOSCollection" THEN Len(c.weights) ELSE Len(c.data)

\* A Python index into a sequence of n items as a position from 1, or 0
\* when it is out of range.
Position(item, n) ==
    LET i == IF item < 0 THEN item + n ELSE item
    IN  IF i >= 0 /\ i < n THEN i + 1 ELSE 0

\* DOSCollection.__getitem__ with an int: the stored entity itself
DOSCollection_getitem(c, item) ==
    LET p == Position(item, Len(c.data)) IN
    IF p = 0 THEN Item(0, Fail("IndexError"))
    ELSE Item(c.data[p], Ent(c.data[p]))

\* GridDOSCollection.__getitem__ with an int: a GridDOSData made on the fly
\* from the shared axis, the stored row and the stored info dict
GridDOSCollection_getitem(c, item) ==
    LET p == Position(item, Len(c.weights)) IN
    IF p = 0 \/ p > Len(c.info) THEN Item(0, Fail("IndexError"))
    ELSE Item(0, GridDOSData_init(c.energies, c.weights[p], InfoDict(c.info[p])))

\* self[item] for an int item
getitem(c, item) ==
    IF c.cls = "GridDOSCollection" THEN GridDOSCollection_getitem(c, item)
    ELSE DOSCollection_getitem(c, item)

\* collections.abc.Sequence.__iter__: self[0], self[1], ... until IndexError
RECURSIVE IterFrom(_, _)
IterFrom(c, i) ==
    LET it == getitem(c, i) IN
    IF it.err = "IndexError" THEN <<>> ELSE <<it>> \o IterFrom(c, i + 1)

Iter(c) == IterFrom(c, 0)

\* DOSCollection.__init__
DOSCollection_init(cls, dos_series) ==
    CObj(cls, [i \in 1..Len(dos_series) |-> dos_series[i].id], <<>>, <<>>, <<>>)

\* RawDOSCollection.__init__
RawDOSCollection_init(dos_series) ==
    IF \E i \in 1..Len(dos_series) : dos_series[i].val.cls # "RawDOSData"
    THEN CFail("TypeError")
    ELSE DOSCollection_init("RawDOSCollection", dos_series)

\* GridDOSCollection.__init__ checking the class of an item and not its axis
GridItemCheck_class_only(dos_data, energies) ==
    IF dos_data.cls # "GridDOSData" THEN "TypeError" ELSE "ok"

\* The exception GridDOSCollection.__init__ raises on item dos_data, "ok" if
\* none
GridItemCheck(dos_data, energies) ==
    IF dos_data.cls # "GridDOSData" THEN "TypeError"
    ELSE IF Len(dos_data.e) # Len(energies) \/ ~AllClose(dos_data.e, energies)
    THEN "ValueError"
    ELSE "ok"

\* GridDOSCollection.__init__
GridDOSCollection_init(dos_series) ==
    IF dos_series = <<>> THEN CFail("IndexError")
    ELSE LET dos_list == [i \in 1..Len(dos_series) |-> dos_series[i].val]
             energies == dos_list[1].e
             bad == {i \in 1..Len(dos_list) : GridItemCheck(dos_list[i], energies) # "ok"}
         IN  IF bad # {}
             THEN CFail(GridItemCheck(dos_list[CHOOSE i \in bad : \A j \in bad : i <= j],
                                      energies))
             ELSE CObj("GridDOSCollection", <<>>, energies,
                       [i \in 1..Len(dos_list) |-> dos_list[i].w],
                       [i \in 1..Len(dos_list) |-> dos_list[i].dict])

\* type(self)(dos_series) for a collection of class cls
type_self(cls, dos_series) ==
    IF cls = "GridDOSCollection" THEN GridDOSCollection_init(dos_series)
    ELSE IF cls = "RawDOSCollection" THEN RawDOSCollection_init(dos_series)
    ELSE DOSCollection_init(cls, dos_series)

\* functools.reduce(lambda x, y: x + y, items) over the first k items
RECURSIVE reduce_add(_, _)
reduce_add(items, k) ==
    IF k = 1 THEN items[1].val
    ELSE LET x == reduce_add(items, k - 1) IN
         IF x.err # "ok" THEN x ELSE DOSData_add(x, items[k].val)

\* sum_all handing out the single entry itself instead of a copy
sum_all_no_copy(c) ==
    IF len(c) = 0 THEN Fail("IndexError")
    ELSE IF len(c) = 1 THEN getitem(c, 0).val
    ELSE reduce_add(Iter(c), Len(Iter(c)))

\* sum_all raising ValueError on no entry
sum_all_value_error(c) ==
    IF len(c) = 0 THEN Fail("ValueError")
    ELSE IF len(c) = 1 THEN copy(getitem(c, 0).val)
    ELSE reduce_add(Iter(c), Len(Iter(c)))

\* DOSCollection.sum_all
sum_all(c) ==
    IF len(c) = 0 THEN Fail("IndexError")
    ELSE IF len(c) = 1 THEN copy(getitem(c, 0).val)
    ELSE reduce_add(Iter(c), Len(Iter(c)))

\* total replacing the info of the sum by the label alone
total_label_only(c) ==
    LET data == sum_all(c) IN
    IF data.err # "ok" THEN data
    ELSE [data EXCEPT !.info = {<<"label", "Total">>}]

\* total putting the label into the info of the first entry
total_label_first(c) ==
    LET data == sum_all(c) IN
    IF data.err # "ok" THEN data
    ELSE LET first == getitem(c, 0).val IN
         [data EXCEPT !.info = DictUpdate(first.info, "label", "Total"),
                      !.dict = first.dict]

\* DOSCollection.total
total(c) ==
    LET data == sum_all(c) IN
    IF data.err # "ok" THEN data
    ELSE [data EXCEPT !.info = DictUpdate(@, "label", "Total")]

\* Matching only an info that is the query, item for item
Matches_whole_info(query, data) == query = data.info

\* query.issubset(set(data.info.items()))
Matches(query, data) == query \subseteq data.info

\* select keeping the entities that have some item of the query
select_any_item(c, info_selection) ==
    LET query == info_selection
        Hit(it) == query \cap it.val.info # {}
        matches == SelectSeq(Iter(c), Hit)
    IN  IF matches # <<>> THEN type_self(c.cls, matches) ELSE CNone

\* DOSCollection.select
select(c, info_selection) ==
    LET query == info_selection
        Hit(it) == Matches(query, it.val)
        matches == SelectSeq(Iter(c), Hit)
    IN  IF matches # <<>> THEN type_self(c.cls, matches) ELSE CNone

\* select_not keeping the entities that have no item of the query
select_not_disjoint(c, info_selection) ==
    LET query == info_selection
        Miss(it) == query \cap it.val.info = {}
        matches == SelectSeq(Iter(c), Miss)
    IN  IF matches # <<>> THEN type_self(c.cls, matches) ELSE CNone

\* DOSCollection.select_not
select_not(c, info_selection) ==
    LET query == info_selection
        Miss(it) == ~Matches(query, it.val)
        matches == SelectSeq(Iter(c), Miss)
    IN  IF matches # <<>> THEN type_self(c.cls, matches) ELSE CNone

\* The order of Python on the strings that occur in an info dict.
StrRank(str) ==
    CASE str = "1" -> 1 [] str = "2" -> 2 [] str = "Total" -> 3
      [] str = "a" -> 4 [] str = "b" -> 5 [] str = "label" -> 6

\* (key, value) < (key, value) for tuples of two strings
ItemLess(p, q) ==
    \/ StrRank(p[1]) < StrRank(q[1])
    \/ p[1] = q[1] /\ StrRank(p[2]) < StrRank(q[2])

\* tuple(sorted(items)) for a set of items
RECURSIVE sorted_items(_)
sorted_items(items) ==
    IF items = {} THEN <<>>
    ELSE LET first == CHOOSE p \in items : \A q \in items \ {p} : ItemLess(p, q)
         IN  <<first>> \o sorted_items(items \ {first})

\* s < t for tuples of items: the first difference decides, a proper prefix
\* is smaller
RECURSIVE TupleLessFrom(_, _, _)
TupleLessFrom(s, t, i) ==
    IF i > Len(t) THEN FALSE
    ELSE IF i > Len(s) THEN TRUE
    ELSE IF s[i] = t[i] THEN TupleLessFrom(s, t, i + 1)
    ELSE ItemLess(s[i], t[i])

TupleLess(s, t) == TupleLessFrom(s, t, 1)

\* sorted(set(all_combos)), a combo standing for the sorted tuple of its
\* items
RECURSIVE sorted_combos(_)
sorted_combos(combos) ==
    IF combos = {} THEN <<>>
    ELSE LET first == CHOOSE s \in combos : \A t \in combos \ {s} :
                            TupleLess(sorted_items(s), sorted_items(t))
         IN  <<first>> \o sorted_combos(combos \ {first})

\* The items of data.info with a key in info_keys
Combo(data, info_keys) == {p \in data.info : p[1] \in info_keys}

\* DOSCollection._sum_all_safely
_sum_all_safely(selection) ==
    IF selection.cls = "NoneType" THEN Fail("ValueError") ELSE sum_all(selection)

\* DOSCollection.sum_by up to the last line: the list collection_data of
\* the sums, or the first exception a sum raises
sum_by_data(c, info_keys) ==
    LET items == Iter(c)
        all_combos == {Combo(items[j].val, info_keys) : j \in 1..Len(items)}
        unique_combos == sorted_combos(all_combos)
        collection_data == [k \in 1..Len(unique_combos) |->
                                _sum_all_safely(select(c, unique_combos[k]))]
        bad == {k \in 1..Len(unique_combos) : collection_data[k].err # "ok"}
    IN  IF bad = {} THEN [err |-> "ok", data |-> collection_data]
        ELSE [err |-> collection_data[CHOOSE k \in bad : \A l \in bad : k <= l].err,
              data |-> <<>>]

\* An operand of +: None, a DOSData (ref an entity), a collection (ref a
\* collection of the heap, or 0 for one an expression has just produced, val
\* its value), or anything else.
OpNone == [kind |-> "None", ref |-> 0, val |-> CNone]
OpData(x) == [kind |-> "DOSData", ref |-> x, val |-> CNone]
OpColl(c) ==
    [kind |-> "collection", ref |-> c,
     val |-> CObj(colls[c].cls, colls[c].data, colls[c].energies,
                  colls[c].weights, colls[c].info)]
OpOther == [kind |-> "other", ref |-> 0, val |-> CNone]

\* What a method returning a collection or None has produced, as an operand.
OpValue(v) ==
    IF v.cls = "NoneType" THEN OpNone
    ELSE [kind |-> "collection", ref |-> 0, val |-> v]

\* What collection + other returns: the left operand itself (its ref and
\* value) or a new collection value (ref 0), or an exception.
Same(collection) == [err |-> "ok", ref |-> collection.ref, val |-> collection.val]
New(val) == [err |-> val.err, ref |-> 0, val |-> val]

\* _add_to_collection putting the entities of other first
_add_to_collection_other_first(other, collection) ==
    IF other.kind = "collection" /\ IsInstance(other.val.cls, collection.val.cls)
    THEN New(type_self(collection.val.cls, Iter(other.val) \o Iter(collection.val)))
    ELSE New(CFail("TypeError"))

\* _add_to_collection, the default of the singledispatch
_add_to_collection_default(other, collection) ==
    IF other.kind = "collection" /\ IsInstance(other.val.cls, collection.val.cls)
    THEN New(type_self(collection.val.cls, Iter(collection.val) \o Iter(other.val)))
    ELSE New(CFail("TypeError"))

\* _add_data, registered for DOSData
_add_data(other, collection) ==
    New(type_self(collection.val.cls,
                  Iter(collection.val) \o <<Item(other.ref, Ent(other.ref))>>))

\* _add_none returning a new collection of the same entities
_add_none_copy(other, collection) ==
    New(type_self(collection.val.cls, Iter(collection.val)))

\* _add_none, registered for type(None)
_add_none(other, collection) == Same(collection)

\* DOSCollection.__add__: _add_to_collection(other, self), dispatched on
\* type(other)
DOSCollection_add(collection, other) ==
    IF other.kind = "DOSData" THEN _add_data(other, collection)
    ELSE IF other.kind = "None" THEN _add_none(other, collection)
    ELSE _add_to_collection_default(other, collection)

\* left + right with None + right handing back right
binary_add_reflected(left, right) ==
    IF left.kind = "collection" THEN DOSCollection_add(left, right)
    ELSE IF left.kind = "None" /\ right.kind = "collection" THEN Same(right)
    ELSE New(CFail("TypeError"))

\* left + right as Python evaluates it: type(left).__add__(left, right); of
\* the operands only collections define __add__ here, and no class defines
\* __radd__, so None + right raises TypeError.
binary_add(left, right) ==
    IF left.kind = "collection" THEN DOSCollection_add(left, right)
    ELSE New(CFail("TypeError"))

(***************************************************************************)
(* The heap: putting a returned entity value on it.                        *)
(***************************************************************************)
\* The dict heap after the value v was made: a dict the call created is
\* new, a dict that existed holds what the call left in it.
DictsWith(v) ==
    IF v.dict = 0 THEN Append(dicts, v.info) ELSE [dicts EXCEPT ![v.dict] = v.info]

\* The entity object for the value v.
EntOf(v) ==
    [cls |-> v.cls, e |-> v.e, w |-> v.w,
     info |-> IF v.dict = 0 THEN Len(dicts) + 1 ELSE v.dict]

\* History of an entity: built by the caller from (energies, weights), or
\* returned by a call `by` on the object `of`.
Built(energies, weights) == [by |-> "caller", of |-> 0, args |-> <<energies, weights>>]
Returned(by, of, args) == [by |-> by, of |-> of, args |-> args]

Res(op, err, self, other, ref) ==
    [op |-> op, err |-> err, self |-> self, other |-> other, ref |-> ref]

(***************************************************************************)
(* Inputs of the entity-level specification.                               *)
(***************************************************************************)
Keys == {"a", "b"}
Vals == {"1", "2"}

InfoPool == { {}, {<<"a", "1">>, <<"b", "1">>}, {<<"a", "2">>, <<"b", "1">>} }

\* (energies, weights) pairs.  The axes of D3 and D4 differ by less than the
\* tolerance of np.allclose.
D1 == << <<1>>, <<2>> >>
D2 == << <<3>>, <<4>> >>
D3 == << <<0, 500000, 1000000>>, <<1, 2, 3>> >>
D4 == << <<0, 500000, 1000001>>, <<4, 5, 6>> >>
D5 == << <<0, 500100, 1000200>>, <<1, 1, 1>> >>

\* (class, data) of the first and of the second entity the caller builds.
FirstPool == { <<"RawDOSData", D1>>, <<"GridDOSData", D3>>, <<"GridDOSData", D4>> }
SecondPool == { <<"RawDOSData", D2>>, <<"GridDOSData", D3>>, <<"GridDOSData", D4>>,
                <<"GridDOSData", D5>>, <<"GridDOSData", D1>> }

\* Values the caller stores under a key of an info dict.
EditVals == {"2"}

\* Values the caller writes into an array it was handed.
WriteVals == {7}

(***************************************************************************)
(* Entity-level specification: two entities built by the caller, then      *)
(* calls on them and on what the calls return.                             *)
(***************************************************************************)
InitData ==
    \E pa \in FirstPool, pb \in SecondPool, ia \in InfoPool, ib \in InfoPool :
        LET a == Construct(pa[1], pa[2][1], pa[2][2], InfoFresh(ia))
            b == Construct(pb[1], pb[2][1], pb[2][2], InfoFresh(ib))
        IN  /\ a.err = "ok" /\ b.err = "ok"
            /\ dicts = <<a.info, b.info>>
            /\ ents = << [cls |-> a.cls, e |-> a.e, w |-> a.w, info |-> 1],
                         [cls |-> b.cls, e |-> b.e, w |-> b.w, info |-> 2] >>
            /\ origin = <<Built(pa[2][1], pa[2][2]), Built(pb[2][1], pb[2][2])>>
            /\ arrs = <<>>
            /\ colls = <<>>
            /\ made = <<>>
            /\ res = Res("init", "ok", 0, 0, 0)
            /\ steps = 0

\* arr = x.get_energies()
GetEnergies(x) ==
    /\ steps < MaxSteps
    /\ arrs' = Append(arrs, get_energies(x))
    /\ res' = Res("get_energies", "ok", x, 0, Len(arrs) + 1)
    /\ steps' = steps + 1
    /\ UNCHANGED <<dicts, ents, colls, made, origin>>

\* arr = x.get_weights()
GetWeights(x) ==
    /\ steps < MaxSteps
    /\ arrs' = Append(arrs, get_weights(x))
    /\ res' = Res("get_weights", "ok", x, 0, Len(arrs) + 1)
    /\ steps' = steps + 1
    /\ UNCHANGED <<dicts, ents, colls, made, origin>>

\* arr[i] = v on an array returned earlier; a view writes through to the
\* _data of its base
WriteArray(a, i, v) ==
    /\ steps < MaxSteps
    /\ i \in 1..Len(arrs[a].val)
    /\ arrs' = [arrs EXCEPT ![a].val[i] = v]
    /\ ents' = IF arrs[a].base = 0 THEN ents
               ELSE IF arrs[a].row = 1
                    THEN [ents EXCEPT ![arrs[a].base].e[i] = v]
                    ELSE [ents EXCEPT ![arrs[a].base].w[i] = v]
    /\ res' = Res("write", "ok", 0, 0, a)
    /\ steps' = steps + 1
    /\ UNCHANGED <<dicts, colls, made, origin>>

\* y = x.copy()
Copy(x) ==
    /\ steps < MaxSteps
    /\ LET v == copy(Ent(x)) IN
        /\ v.err = "ok"
        /\ dicts' = DictsWith(v)
        /\ ents' = Append(ents, EntOf(v))
        /\ origin' = Append(origin, Returned("copy", x, <<>>))
        /\ res' = Res("copy", "ok", x, 0, Len(ents) + 1)
    /\ steps' = steps + 1
    /\ UNCHANGED <<arrs, colls, made>>

\* x.info[k] = v
SetInfo(x, k, v) ==
    /\ steps < MaxSteps
    /\ dicts' = [dicts EXCEPT ![ents[x].info] = DictUpdate(@, k, v)]
    /\ res' = Res("set_info", "ok", x, 0, 0)
    /\ steps' = steps + 1
    /\ UNCHANGED <<ents, arrs, colls, made, origin>>

\* del x.info[k]
DelInfo(x, k) ==
    /\ steps < MaxSteps
    /\ k \in InfoKeys(dicts[ents[x].info])
    /\ dicts' = [dicts EXCEPT ![ents[x].info] = DictDel(@, k)]
    /\ res' = Res("del_info", "ok", x, 0, 0)
    /\ steps' = steps + 1
    /\ UNCHANGED <<ents, arrs, colls, made, origin>>

\* z = x + y, y an entity or (y = 0) something that is not a DOSData
AddData(x, y) ==
    /\ steps < MaxSteps
    /\ LET v == DOSData_add(Ent(x), IF y = 0 THEN NotDOSData ELSE Ent(y)) IN
        IF v.err = "ok"
        THEN /\ dicts' = DictsWith(v)
             /\ ents' = Append(ents, EntOf(v))
             /\ origin' = Append(origin, Returned("add", x, <<y>>))
             /\ res' = Res("add", "ok", x, y, Len(ents) + 1)
        ELSE /\ res' = Res("add", v.err, x, y, 0)
             /\ UNCHANGED <<dicts, ents, origin>>
    /\ steps' = steps + 1
    /\ UNCHANGED <<arrs, colls, made>>

NextData ==
    \/ \E x \in 1..Len(ents) : GetEnergies(x)
    \/ \E x \in 1..Len(ents) : GetWeights(x)
    \/ \E a \in 1..Len(arrs), i \in 1..3, v \in WriteVals : WriteArray(a, i, v)
    \/ \E x \in 1..Len(ents) : Copy(x)
    \/ \E x \in 1..Len(ents), k \in Keys, v \in EditVals : SetInfo(x, k, v)
    \/ \E x \in 1..Len(ents), k \in Keys : DelInfo(x, k)
    \/ \E x \in 1..Len(ents), y \in 0..Len(ents) : AddData(x, y)

SpecData == InitData /\ [][NextData]_vars

(***************************************************************************)
(* Properties of the entities (checked under SpecData).                    *)
(***************************************************************************)
CallerBuilt == {x \in 1..Len(ents) : origin[x].by = "caller"}

\* C1: for every entity built by the caller from valid energies and weights,
\* get_energies() and get_weights() return the construction inputs, and each
\* returns an independent copy: whatever the caller has written into arrays
\* returned earlier, a later get_energies() / get_weights() still returns the
\* construction values.
C1_AccessorsReturnCopies ==
    /\ \A x \in CallerBuilt :
        /\ get_energies(x).val = origin[x].args[1]
        /\ get_weights(x).val = origin[x].args[2]
    /\ (res.op \in {"get_energies", "get_weights"} /\ res.self \in CallerBuilt) =>
        arrs[res.ref].val = origin[res.self].args[arrs[res.ref].row]

\* C1 witness: the caller has overwritten an element of an array returned
\* by get_energies() of an entity it built.
C1_Witness ==
    /\ res.op = "write"
    /\ arrs[res.ref].row = 1
    /\ arrs[res.ref].of \in CallerBuilt
    /\ arrs[res.ref].val # origin[arrs[res.ref].of].args[1]

IsCopyOf(y, x) == origin[y].by = "copy" /\ origin[y].of = x

InfoOf(x) == dicts[ents[x].info]

EditOf(x) == res'.op \in {"set_info", "del_info"} /\ res'.self = x

\* C2: d.copy() is a new instance of the same concrete class that
\* _almost_equals d (and d it), and adding, changing or deleting a key of the
\* copy's info leaves d.info unchanged, and the other way round.
C2_CopyIsIndependent ==
    [][ /\ res'.op = "copy" =>
            /\ res'.ref # res'.self
            /\ res'.ref \notin 1..Len(ents)
            /\ ents'[res'.ref].cls = ents'[res'.self].cls
            /\ _almost_equals(EntIn(ents', dicts', res'.self),
                              EntIn(ents', dicts', res'.ref)) = "True"
            /\ _almost_equals(EntIn(ents', dicts', res'.ref),
                              EntIn(ents', dicts', res'.self)) = "True"
        /\ \A x \in 1..Len(ents), y \in 1..Len(ents) :
            IsCopyOf(y, x) =>
                /\ EditOf(y) => InfoOf(x)' = InfoOf(x)
                /\ EditOf(x) => InfoOf(y)' = InfoOf(y)
      ]_vars

\* C2 witness: the info of a copy has been edited and now differs from the
\* info of the entity it was copied from.
C2_Witness ==
    /\ res.op \in {"set_info", "del_info"}
    /\ origin[res.self].by = "copy"
    /\ InfoOf(res.self) # InfoOf(origin[res.self].of)

\* The items present with the same value in both infos.
CommonItems(a, b) == {p \in Keys \X Vals : p \in a /\ p \in b}

\* C4: for RawDOSData a and b, a + b is a RawDOSData whose energies are a's
\* followed by b's, whose weights are a's followed by b's, and whose info
\* holds exactly the items present with the same value in a.info and b.info;
\* if b is not a RawDOSData, a + b fails with TypeError.
C4_RawAdd ==
    (res.op = "add" /\ ents[res.self].cls = "RawDOSData") =>
        IF res.other # 0 /\ ents[res.other].cls = "RawDOSData"
        THEN /\ res.err = "ok"
             /\ ents[res.ref].cls = "RawDOSData"
             /\ Len(ents[res.ref].e) = Len(ents[res.self].e) + Len(ents[res.other].e)
             /\ \A i \in 1..Len(ents[res.self].e) :
                    /\ ents[res.ref].e[i] = ents[res.self].e[i]
                    /\ ents[res.ref].w[i] = ents[res.self].w[i]
             /\ \A i \in 1..Len(ents[res.other].e) :
                    /\ ents[res.ref].e[Len(ents[res.self].e) + i] = ents[res.other].e[i]
                    /\ ents[res.ref].w[Len(ents[res.self].e) + i] = ents[res.other].w[i]
             /\ Len(ents[res.ref].w) = Len(ents[res.ref].e)
             /\ InfoOf(res.ref) = CommonItems(InfoOf(res.self), InfoOf(res.other))
        ELSE res.err = "TypeError"

\* C4 witness: RawDOSData([1], [2], {a: 1, b: 1}) + RawDOSData([3], [4],
\* {a: 2, b: 1}) has been computed and is ([1, 3], [2, 4], {b: 1}).
C4_Witness ==
    /\ res.op = "add" /\ res.err = "ok"
    /\ ents[res.self].cls = "RawDOSData"
    /\ InfoOf(res.self) = {<<"a", "1">>, <<"b", "1">>}
    /\ InfoOf(res.other) = {<<"a", "2">>, <<"b", "1">>}
    /\ ents[res.ref].e = <<1, 3>>
    /\ ents[res.ref].w = <<2, 4>>
    /\ InfoOf(res.ref) = {<<"b", "1">>}

\* The result of a successful GridDOSData a + b: on a's axis, the weights
\* summed elementwise, the info the common items.
GridSumOf(r, a, b) ==
    /\ ents[r].cls = "GridDOSData"
    /\ ents[r].e = ents[a].e
    /\ Len(ents[r].w) = Len(ents[a].w)
    /\ \A i \in 1..Len(ents[a].w) : ents[r].w[i] = ents[a].w[i] + ents[b].w[i]
    /\ InfoOf(r) = CommonItems(InfoOf(a), InfoOf(b))

IsGrid(x) == x # 0 /\ ents[x].cls = "GridDOSData"

\* C5 as stated: for GridDOSData a and b, a + b succeeds exactly when the
\* energy axes have equal length and equal values; then it is a GridDOSData on
\* a's axis with weights summed and info intersected; with axes of different
\* length or values it fails with ValueError, with another operand with
\* TypeError.
C5_GridAdd_AsStated ==
    (res.op = "add" /\ IsGrid(res.self)) =>
        IF ~IsGrid(res.other) THEN res.err = "TypeError"
        ELSE IF ents[res.self].e = ents[res.other].e
             THEN res.err = "ok" /\ GridSumOf(res.ref, res.self, res.other)
             ELSE res.err = "ValueError"

\* Axes of equal length whose values agree within the tolerance of
\* np.allclose: |a[i] - b[i]| <= 1e-8 + 1e-5 * |b[i]| for every i.
AxesClose(a, b) ==
    /\ Len(a) = Len(b)
    /\ \A i \in 1..Len(a) : 100000 * Abs(a[i] - b[i]) <= Abs(b[i])

\* C5: for GridDOSData a and b, a + b succeeds exactly when the energy axes
\* have equal length and values equal within the tolerance of np.allclose;
\* then it is a GridDOSData on a's axis with weights summed elementwise and
\* info intersected; otherwise it fails with ValueError, and with an operand
\* that is not a GridDOSData it fails with TypeError.
C5_GridAdd ==
    (res.op = "add" /\ IsGrid(res.self)) =>
        IF ~IsGrid(res.other) THEN res.err = "TypeError"
        ELSE IF AxesClose(ents[res.self].e, ents[res.other].e)
             THEN res.err = "ok" /\ GridSumOf(res.ref, res.self, res.other)
             ELSE res.err = "ValueError"

\* C5 witness: two grids with equal axes have been added and the common
\* item of their infos survives.
C5_Witness ==
    /\ res.op = "add" /\ res.err = "ok"
    /\ IsGrid(res.self) /\ res.other # res.self
    /\ ents[res.self].e = ents[res.other].e
    /\ Len(ents[res.self].e) = 3
    /\ InfoOf(res.self) # InfoOf(res.other)
    /\ InfoOf(res.ref) = {<<"b", "1">>}

(***************************************************************************)
(* Collection-level specification: the caller builds entities and one      *)
(* collection of them, then calls the collection's methods and edits the   *)
(* info of the entities it holds.                                          *)
(***************************************************************************)
MaxLen == 3

\* The entities a collection of each class is built from.
R1 == [cls |-> "RawDOSData", e |-> D1[1], w |-> D1[2], info |-> {<<"a", "1">>, <<"b", "1">>}]
R2 == [cls |-> "RawDOSData", e |-> D2[1], w |-> D2[2], info |-> {<<"a", "2">>, <<"b", "1">>}]
R3 == [cls |-> "RawDOSData", e |-> D1[1], w |-> D2[2], info |-> {}]
G1 == [cls |-> "GridDOSData", e |-> D3[1], w |-> D3[2], info |-> {<<"a", "1">>, <<"b", "1">>}]
G2 == [cls |-> "GridDOSData", e |-> D4[1], w |-> D4[2], info |-> {<<"a", "2">>, <<"b", "1">>}]
G3 == [cls |-> "GridDOSData", e |-> D3[1], w |-> D5[2], info |-> {}]
G5 == [cls |-> "GridDOSData", e |-> D5[1], w |-> D5[2], info |-> {<<"a", "2">>, <<"b", "1">>}]

SeriesPool(cls) ==
    IF cls = "RawDOSCollection" THEN {R1, R2, R3}
    ELSE IF cls = "GridDOSCollection" THEN {G1, G2, G3}
    ELSE {R1, G1, G5}

CollectionClasses == {"DOSCollection", "RawDOSCollection", "GridDOSCollection"}

\* The criteria of select() and select_not(), as set(info_selection.items())
Queries == { {<<"a", "1">>}, {<<"b", "1">>}, {<<"a", "2">>, <<"b", "1">>}, {<<"b", "2">>} }

\* The int indices of c[item]: every position, from the front and from the
\* back, and one past the end.
Indices(c) == (0 - len(c))..len(c)

\* The collection object for the value v.
CollOf(v) ==
    [cls |-> v.cls, data |-> v.data, energies |-> v.energies,
     weights |-> v.weights, info |-> v.info]

\* The state after the caller has built a collection of any class from up to
\* MaxLen entities of Pool[class].
InitFrom(Pool) ==
    \E cls \in CollectionClasses, n \in 0..MaxLen :
        \E series \in [1..n -> Pool[cls]] :
            LET built == [i \in 1..n |->
                            Construct(series[i].cls, series[i].e, series[i].w,
                                      InfoFresh(series[i].info))]
                es == [i \in 1..n |->
                            [cls |-> built[i].cls, e |-> built[i].e,
                             w |-> built[i].w, info |-> i]]
                ds == [i \in 1..n |-> built[i].info]
                c == type_self(cls, [i \in 1..n |-> Item(i, EntIn(es, ds, i))])
            IN  /\ \A i \in 1..n : built[i].err = "ok"
                /\ c.err = "ok"
                /\ dicts = ds
                /\ ents = es
                /\ origin = [i \in 1..n |-> Built(series[i].e, series[i].w)]
                /\ arrs = <<>>
                /\ colls = <<CollOf(c)>>
                /\ made = <<[by |-> "caller", of |-> 0, args |-> <<>>]>>
                /\ res = Res("init", "ok", 0, 0, 0)
                /\ steps = 0

Init == InitFrom([cls \in CollectionClasses |-> SeriesPool(cls)])

\* A call that returns the entity value v, or raises
ReturnEntity(op, c, arg, v) ==
    IF v.err = "ok"
    THEN /\ dicts' = DictsWith(v)
         /\ ents' = Append(ents, EntOf(v))
         /\ origin' = Append(origin, Returned(op, c, <<arg>>))
         /\ res' = Res(op, "ok", c, arg, Len(ents) + 1)
    ELSE /\ res' = Res(op, v.err, c, arg, 0)
         /\ UNCHANGED <<dicts, ents, origin>>

\* A call that returns the collection value v or None (ref 0), or raises
ReturnCollection(op, c, arg, v) ==
    IF v.err = "ok" /\ v.cls # "NoneType"
    THEN /\ colls' = Append(colls, CollOf(v))
         /\ made' = Append(made, Returned(op, c, <<arg>>))
         /\ res' = Res(op, "ok", c, arg, Len(colls) + 1)
    ELSE /\ res' = Res(op, v.err, c, arg, 0)
         /\ UNCHANGED <<colls, made>>

\* x = c[item]
GetItem(c, item) ==
    /\ steps < MaxSteps
    /\ LET it == getitem(colls[c], item) IN
        IF it.err = "ok" /\ it.id # 0
        THEN /\ res' = Res("getitem", "ok", c, item, it.id)
             /\ UNCHANGED <<dicts, ents, origin>>
        ELSE ReturnEntity("getitem", c, item, it.val)
    /\ steps' = steps + 1
    /\ UNCHANGED <<arrs, colls, made>>

\* x = c.sum_all()
SumAll(c) ==
    /\ steps < MaxSteps
    /\ ReturnEntity("sum_all", c, 0, sum_all(colls[c]))
    /\ steps' = steps + 1
    /\ UNCHANGED <<arrs, colls, made>>

\* x = c.total()
Total(c) ==
    /\ steps < MaxSteps
    /\ ReturnEntity("total", c, 0, total(colls[c]))
    /\ steps' = steps + 1
    /\ UNCHANGED <<arrs, colls, made>>

\* s = c.select(**info_selection)
Select(c, info_selection) ==
    /\ steps < MaxSteps
    /\ ReturnCollection("select", c, info_selection, select(colls[c], info_selection))
    /\ steps' = steps + 1
    /\ UNCHANGED <<dicts, ents, arrs, origin>>

\* s = c.select_not(**info_selection)
SelectNot(c, info_selection) ==
    /\ steps < MaxSteps
    /\ ReturnCollection("select_not", c, info_selection,
                        select_not(colls[c], info_selection))
    /\ steps' = steps + 1
    /\ UNCHANGED <<dicts, ents, arrs, origin>>

\* The operands of c + other the caller has at hand.
Operands ==
    {OpNone, OpOther} \cup {OpData(x) : x \in 1..Len(ents)}
                      \cup {OpColl(d) : d \in 1..Len(colls)}

\* The entities of the right operand of + as the constructor receives them
OperandItems(other) ==
    IF other.kind = "collection" THEN Iter(other.val)
    ELSE IF other.kind = "DOSData" THEN <<Item(other.ref, Ent(other.ref))>>
    ELSE <<>>

\* A call that returns the collection value v built from dos_series, or
\* raises.  A collection that keeps its entities (any but a
\* GridDOSCollection) keeps the objects of dos_series that were made during
\* the call (id 0), by iterating a GridDOSCollection or by from_data: they
\* are entities from now on, each with the info dict it was made with.
ReturnBuilt(op, c, arg, v, dos_series) ==
    IF v.err = "ok" /\ v.cls \notin {"NoneType", "GridDOSCollection"}
    THEN LET fresh == {j \in 1..Len(dos_series) : dos_series[j].id = 0}
             made_on_the_fly == SelectSeq(dos_series, LAMBDA it : it.id = 0)
             id(j) == IF j \in fresh
                      THEN Len(ents) + Cardinality({i \in fresh : i <= j})
                      ELSE dos_series[j].id
         IN  /\ ents' = ents \o [k \in 1..Len(made_on_the_fly) |->
                                    [cls |-> made_on_the_fly[k].val.cls,
                                     e |-> made_on_the_fly[k].val.e,
                                     w |-> made_on_the_fly[k].val.w,
                                     info |-> made_on_the_fly[k].val.dict]]
             /\ origin' = origin \o [k \in 1..Len(made_on_the_fly) |->
                                        Returned(op, c, <<>>)]
             /\ colls' = Append(colls, [CollOf(v) EXCEPT
                                          !.data = [j \in 1..Len(dos_series) |-> id(j)]])
             /\ made' = Append(made, Returned(op, c, <<arg>>))
             /\ res' = Res(op, "ok", c, arg, Len(colls) + 1)
    ELSE /\ ReturnCollection(op, c, arg, v)
         /\ UNCHANGED <<ents, origin>>

\* s = c + other
AddCollection(c, other) ==
    /\ steps < MaxSteps
    /\ LET r == DOSCollection_add(OpColl(c), other) IN
        IF r.err = "ok" /\ r.ref # 0
        THEN /\ res' = Res("add", "ok", c, other, r.ref)
             /\ UNCHANGED <<colls, made, ents, origin>>
        ELSE ReturnBuilt("add", c, other, r.val,
                         Iter(colls[c]) \o OperandItems(other))
    /\ steps' = steps + 1
    /\ UNCHANGED <<dicts, arrs>>

\* The keys whose items the caller edits in the collection-level
\* specifications.
EditKeys == {"a"}

Next ==
    \/ \E c \in 1..Len(colls) : \E item \in Indices(colls[c]) : GetItem(c, item)
    \/ \E c \in 1..Len(colls) : SumAll(c)
    \/ \E c \in 1..Len(colls) : Total(c)
    \/ \E x \in 1..Len(ents), k \in EditKeys, v \in EditVals : SetInfo(x, k, v)
    \/ \E x \in 1..Len(ents), k \in EditKeys : DelInfo(x, k)

Spec == Init /\ [][Next]_vars

\* select() and select_not() are called on the collection the caller built.
NextSelect ==
    \/ \E q \in Queries : Select(1, q)
    \/ \E q \in Queries : SelectNot(1, q)

SpecSelect == Init /\ [][NextSelect]_vars

\* The left operand is the collection the caller built, the right operand
\* anything the caller has at hand, the results of earlier sums included.
NextAdd ==
    \E other \in Operands : AddCollection(1, other)

SpecAdd == Init /\ [][NextAdd]_vars

(***************************************************************************)
(* Properties of indexing and summation (checked under Spec).              *)
(***************************************************************************)
\* The entities of collection c as values, in order.
Entries(c) == [j \in 1..len(colls[c]) |-> getitem(colls[c], j - 1).val]

\* The info each position of collection c reports.
EntryInfos(c) == [j \in 1..len(colls[c]) |-> Entries(c)[j].info]

FromGridIndex(x) ==
    /\ origin[x].by = "getitem"
    /\ colls[origin[x].of].cls = "GridDOSCollection"

\* C3: editing the info of an entity obtained by c[i] from a
\* GridDOSCollection c leaves the info every position of c reports as it was
\* before the edit.
C3_IndexedEntityIsFresh ==
    [][ \A x \in 1..Len(ents) :
            (FromGridIndex(x) /\ EditOf(x)) =>
                EntryInfos(origin[x].of)' = EntryInfos(origin[x].of) ]_vars

\* The items every entry of es has.
CommonToAll(es) == {p \in es[1].info : \A j \in 1..Len(es) : p \in es[j].info}

\* The entries can be summed with +: all of one class, and grids on axes
\* that np.allclose accepts against the first one.
Summable(es) ==
    \A j \in 2..Len(es) :
        /\ es[j].cls = es[1].cls
        /\ es[1].cls = "GridDOSData" => AxesClose(es[1].e, es[j].e)

RECURSIVE Concat(_, _)
Concat(seqs, k) == IF k = 0 THEN <<>> ELSE Concat(seqs, k - 1) \o seqs[k]

RECURSIVE SumAt(_, _, _)
SumAt(es, i, k) == IF k = 0 THEN 0 ELSE SumAt(es, i, k - 1) + es[k].w[i]

\* The entity x holds the sum of the entries es: raw data one after the
\* other in the order of the entries, grid weights added up on the first
\* axis.
HoldsSumOf(x, es) ==
    /\ ents[x].cls = es[1].cls
    /\ IF es[1].cls = "RawDOSData"
       THEN /\ ents[x].e = Concat([j \in 1..Len(es) |-> es[j].e], Len(es))
            /\ ents[x].w = Concat([j \in 1..Len(es) |-> es[j].w], Len(es))
       ELSE /\ ents[x].e = es[1].e
            /\ ents[x].w = [i \in 1..Len(es[1].w) |-> SumAt(es, i, Len(es))]

\* No other object refers to the info dict of entity x.
OwnsInfo(x) ==
    /\ \A y \in 1..Len(ents) : y # x => ents[y].info # ents[x].info
    /\ \A c \in 1..Len(colls) : \A j \in 1..Len(colls[c].info) :
            colls[c].info[j] # ents[x].info

\* C6 as stated: on every collection that is not empty, total() returns the
\* sum of the entries with the info {label: Total} and nothing else.
C6_TotalInfo_AsStated ==
    (res.op = "total" /\ len(colls[res.self]) > 0) =>
        /\ res.err = "ok"
        /\ HoldsSumOf(res.ref, Entries(res.self))
        /\ InfoOf(res.ref) = {<<"label", "Total">>}

\* C6: on an empty collection total() fails; on entries that can be summed
\* it returns their sum, whose info is the items common to all entries with
\* the item label: Total added (replacing a common label); on entries that
\* cannot be summed it fails as + does.
C6_Total ==
    res.op = "total" =>
        LET es == Entries(res.self) IN
        IF Len(es) = 0 THEN res.err = "IndexError"
        ELSE IF Summable(es)
        THEN /\ res.err = "ok"
             /\ HoldsSumOf(res.ref, es)
             /\ InfoOf(res.ref) =
                    {p \in CommonToAll(es) : p[1] # "label"} \cup {<<"label", "Total">>}
        ELSE res.err \in {"TypeError", "ValueError"}

\* C6 witness: total() of two entries that share the item b: 1 has been
\* returned, and the item is in its info next to the label.
C6_Witness ==
    /\ res.op = "total" /\ res.err = "ok"
    /\ len(colls[res.self]) = 2
    /\ InfoOf(res.ref) = {<<"b", "1">>, <<"label", "Total">>}

\* What sum_all() has just returned: it fails on an empty collection; on
\* one entry it returns a new entity with the entry's class, data and info
\* whose info dict no other object shares; on two or more entries it returns
\* the left-to-right sum, whose info is the items common to all entries, or
\* fails as + does.
SumAllReturned ==
    res.op = "sum_all" =>
        LET es == Entries(res.self) IN
        IF Len(es) = 0 THEN res.err = "IndexError"
        ELSE IF Len(es) = 1
        THEN /\ res.err = "ok"
             /\ \A j \in 1..Len(colls[res.self].data) : colls[res.self].data[j] # res.ref
             /\ ents[res.ref].cls = es[1].cls
             /\ ents[res.ref].e = es[1].e
             /\ ents[res.ref].w = es[1].w
             /\ InfoOf(res.ref) = es[1].info
             /\ OwnsInfo(res.ref)
        ELSE IF Summable(es)
        THEN /\ res.err = "ok"
             /\ HoldsSumOf(res.ref, es)
             /\ InfoOf(res.ref) = CommonToAll(es)
             /\ OwnsInfo(res.ref)
        ELSE res.err \in {"TypeError", "ValueError"}

\* C7: sum_all() fails on an empty collection, returns a copy of the entry
\* of a one-entry collection and the left-to-right sum of two or more
\* entries, with the items common to all entries as info (SumAllReturned);
\* and the info it returns is independent: an edit of it leaves the infos of
\* the collection as they were, and an edit of another entity's info leaves
\* it as it was.
C7_SumAll ==
    /\ []SumAllReturned
    /\ [][ \A x \in 1..Len(ents) :
            origin[x].by = "sum_all" =>
                /\ EditOf(x) => EntryInfos(origin[x].of)' = EntryInfos(origin[x].of)
                /\ (\E y \in 1..Len(ents) : y # x /\ EditOf(y)) => InfoOf(x)' = InfoOf(x)
          ]_vars

\* C7 witness: sum_all() of three entries of which two differ in the item
\* under a has been returned, with the one item common to all three.
C7_Witness ==
    /\ res.op = "sum_all" /\ res.err = "ok"
    /\ len(colls[res.self]) = 3
    /\ \E j \in 1..3 : <<"a", "1">> \in Entries(res.self)[j].info
    /\ \E j \in 1..3 : <<"a", "2">> \in Entries(res.self)[j].info
    /\ InfoOf(res.ref) = {<<"b", "1">>}

(***************************************************************************)
(* Properties of select and select_not (checked under SpecSelect).         *)
(***************************************************************************)
\* The entries of es at the positions in S, in the order of es.
RECURSIVE Pick(_, _, _)
Pick(es, S, k) ==
    IF k = 0 THEN <<>>
    ELSE Pick(es, S, k - 1) \o (IF k \in S THEN <<es[k]>> ELSE <<>>)

\* The positions of collection c whose info has every item of the query q.
Hits(c, q) == {j \in 1..len(colls[c]) : q \subseteq Entries(c)[j].info}

\* The entity objects of collection c in order (of a Grid collection, which
\* keeps no entity objects, the stored rows and info dicts).
Members(c) ==
    IF colls[c].cls = "GridDOSCollection"
    THEN [j \in 1..len(colls[c]) |-> <<colls[c].weights[j], colls[c].info[j]>>]
    ELSE colls[c].data

\* The entries of the collection the last call returned, none for None.
Returned_Entries == IF res.ref = 0 THEN <<>> ELSE Entries(res.ref)
Returned_Members == IF res.ref = 0 THEN <<>> ELSE Members(res.ref)

\* C8: c.select(**q) returns None when no entity of c has every item of q in
\* its info; otherwise a new collection of the class of c that holds exactly
\* the entities of c that have, in the order they have in c.
C8_Select ==
    res.op = "select" =>
        LET c == res.self
            H == Hits(c, res.other)
        IN  /\ res.err = "ok"
            /\ IF H = {} THEN res.ref = 0
               ELSE /\ res.ref \notin {0, c}
                    /\ made[res.ref] = Returned("select", c, <<res.other>>)
                    /\ colls[res.ref].cls = colls[c].cls
                    /\ len(colls[res.ref]) = Cardinality(H)
                    /\ Entries(res.ref) = Pick(Entries(c), H, len(colls[c]))
                    /\ Members(res.ref) = Pick(Members(c), H, len(colls[c]))

\* C8 witness: select(a = 2, b = 1) on three entries has returned a
\* collection of fewer entries whose first entry is not the first of c.
C8_Witness ==
    /\ res.op = "select" /\ res.ref # 0
    /\ res.other = {<<"a", "2">>, <<"b", "1">>}
    /\ len(colls[res.self]) = 3
    /\ len(colls[res.ref]) < 3
    /\ Entries(res.ref)[1] # Entries(res.self)[1]

\* C9: when c.select_not(**q) is called after c.select(**q), every position
\* of c is in exactly one of the two results, None counting as empty: the
\* entities of one are those of c at some positions, in order, the entities
\* of the other those at the remaining positions, and the two lengths add up
\* to len(c).
C9_SelectNotIsComplement ==
    [][ (/\ res.op = "select" /\ res'.op = "select_not"
         /\ res'.self = res.self /\ res'.other = res.other) =>
            LET n == len(colls[res.self]) IN
            /\ res'.err = "ok"
            /\ Len(Returned_Members) + Len(Returned_Members') = n
            /\ \E S \in SUBSET (1..n) :
                /\ Returned_Members = Pick(Members(res.self), S, n)
                /\ Returned_Entries = Pick(Entries(res.self), S, n)
                /\ Returned_Members' = Pick(Members(res.self), (1..n) \ S, n)
                /\ Returned_Entries' = Pick(Entries(res.self), (1..n) \ S, n)
                /\ S = Hits(res.self, res.other)
      ]_vars

\* C9 witness: select(**q) and then select_not(**q) have been called on a
\* collection of three entries and both returned a collection.
C9_Witness ==
    /\ res.op = "select_not" /\ res.ref = 3
    /\ len(colls[res.self]) = 3
    /\ made[2] = Returned("select", res.self, <<res.other>>)
    /\ len(colls[2]) + len(colls[3]) = 3

(***************************************************************************)
(* Properties of collection + other (checked under SpecAdd).               *)
(***************************************************************************)
\* C10: c + None returns c itself and leaves every collection, entity and
\* info dict as it was.
C10_AddNone ==
    [][ (res'.op = "add" /\ res'.other = OpNone) =>
            /\ res'.err = "ok"
            /\ res'.ref = res'.self
            /\ colls' = colls
            /\ ents' = ents
            /\ dicts' = dicts ]_vars

\* C10 witness: c + None has returned for a collection c of three entries.
C10_Witness ==
    /\ res.op = "add" /\ res.other = OpNone /\ res.err = "ok"
    /\ len(colls[res.self]) = 3

(***************************************************************************)
(* Chaining the results of select and select_not (SpecChain).              *)
(***************************************************************************)
\* r = c.select(**info_selection) + c.select_not(**info_selection)
SelectPlusSelectNot(c, info_selection) ==
    /\ steps < MaxSteps
    /\ LET left == OpValue(select(colls[c], info_selection))
           right == OpValue(select_not(colls[c], info_selection))
       IN  ReturnCollection("select+select_not", c, info_selection,
                            binary_add(left, right).val)
    /\ steps' = steps + 1
    /\ UNCHANGED <<dicts, ents, arrs, origin>>

NextChain == \E c \in 1..Len(colls), q \in Queries : SelectPlusSelectNot(c, q)

SpecChain == Init /\ [][NextChain]_vars

\* C11 as stated: on every collection c that is not empty,
\* c.select(**q) + c.select_not(**q) raises nothing and holds every entity
\* of c exactly once.
C11_Chain_AsStated ==
    (res.op = "select+select_not" /\ len(colls[res.self]) > 0) =>
        /\ res.err = "ok"
        /\ len(colls[res.ref]) = len(colls[res.self])
        /\ \A j \in 1..len(colls[res.self]) :
            Cardinality({k \in 1..len(colls[res.ref]) :
                            Members(res.ref)[k] = Members(res.self)[j]}) = 1

\* C11: c.select(**q) + c.select_not(**q) raises TypeError when no entity of
\* c matches q (select returns None, and None + x is not defined); when some
\* entity matches it returns a new collection of the class of c that holds
\* the matching entities of c in order, followed by the others in order, so
\* every entity of c exactly once.
C11_Chain ==
    res.op = "select+select_not" =>
        LET c == res.self
            n == len(colls[c])
            H == Hits(c, res.other)
        IN  IF H = {} THEN res.err = "TypeError"
            ELSE /\ res.err = "ok"
                 /\ res.ref \notin {0, c}
                 /\ colls[res.ref].cls = colls[c].cls
                 /\ Members(res.ref) =
                        Pick(Members(c), H, n) \o Pick(Members(c), (1..n) \ H, n)
                 /\ Entries(res.ref) =
                        Pick(Entries(c), H, n) \o Pick(Entries(c), (1..n) \ H, n)

\* C11 witness: the chain has returned a collection of three entities of
\* which the first is not the first of c: some entity matched and some did
\* not.
C11_Witness ==
    /\ res.op = "select+select_not" /\ res.err = "ok"
    /\ len(colls[res.self]) = 3
    /\ len(colls[res.ref]) = 3
    /\ Members(res.ref)[1] # Members(res.self)[1]

(***************************************************************************)
(* sum_by (SpecSumBy).                                                     *)
(***************************************************************************)
R4 == [cls |-> "RawDOSData", e |-> D2[1], w |-> D1[2], info |-> {<<"a", "2">>, <<"b", "2">>}]

\* The entities of the collections sum_by is called on: with both keys,
\* with values shared and not shared, and with no key at all; in a
\* DOSCollection, entities that cannot be added.
SumByPool(cls) ==
    IF cls = "RawDOSCollection" THEN {R1, R2, R3, R4}
    ELSE IF cls = "GridDOSCollection" THEN {G1, G2, G3}
    ELSE {R1, G1}

\* The info_keys of sum_by(*info_keys)
KeySets == { {"a"}, {"b"}, {"a", "b"} }

\* s = c.sum_by(*info_keys): the sums are new entities with new info dicts;
\* a DOSCollection or RawDOSCollection keeps the entities, a
\* GridDOSCollection their weights and info dicts
SumBy(c, info_keys) ==
    /\ steps < MaxSteps
    /\ \E r \in {sum_by_data(colls[c], info_keys)} :
        LET n == Len(r.data)
            grid == colls[c].cls = "GridDOSCollection"
            collection_data == [k \in 1..n |-> [r.data[k] EXCEPT !.dict = Len(dicts) + k]]
        IN  \E v \in {type_self(colls[c].cls,
                                [k \in 1..n |->
                                    Item(IF grid THEN 0 ELSE Len(ents) + k,
                                         collection_data[k])])} :
            IF r.err # "ok"
            THEN /\ res' = Res("sum_by", r.err, c, info_keys, 0)
                 /\ UNCHANGED <<dicts, ents, origin, colls, made>>
            ELSE IF v.err # "ok"
            THEN /\ res' = Res("sum_by", v.err, c, info_keys, 0)
                 /\ UNCHANGED <<dicts, ents, origin, colls, made>>
            ELSE /\ dicts' = dicts \o [k \in 1..n |-> collection_data[k].info]
                 /\ ents' = IF grid THEN ents
                            ELSE ents \o [k \in 1..n |-> EntOf(collection_data[k])]
                 /\ origin' = IF grid THEN origin
                              ELSE origin \o [k \in 1..n |-> Returned("sum_by", c, <<k>>)]
                 /\ colls' = Append(colls, CollOf(v))
                 /\ made' = Append(made, Returned("sum_by", c, <<info_keys>>))
                 /\ res' = Res("sum_by", "ok", c, info_keys, Len(colls) + 1)
    /\ steps' = steps + 1
    /\ UNCHANGED arrs

\* sum_by() is called on the collection the caller built.
NextSumBy == \E info_keys \in KeySets : SumBy(1, info_keys)

SpecSumBy == InitFrom([cls \in CollectionClasses |-> SumByPool(cls)]) /\ [][NextSumBy]_vars

\* The entity value v holds the sum of the entries es: raw data one after
\* the other, grid weights added up on the first axis.
IsSumOf(v, es) ==
    /\ v.cls = es[1].cls
    /\ IF es[1].cls = "RawDOSData"
       THEN /\ v.e = Concat([j \in 1..Len(es) |-> es[j].e], Len(es))
            /\ v.w = Concat([j \in 1..Len(es) |-> es[j].w], Len(es))
       ELSE /\ v.e = es[1].e
            /\ v.w = [i \in 1..Len(es[1].w) |-> SumAt(es, i, Len(es))]

\* The restricted sub-mappings of the entries of c for the keys, sorted.
Groups(c, keys) ==
    sorted_combos({Combo(Entries(c)[j], keys) : j \in 1..len(colls[c])})

\* The positions of c whose restricted sub-mapping is combo.
GroupOf(c, keys, combo) ==
    {j \in 1..len(colls[c]) : Combo(Entries(c)[j], keys) = combo}

\* C12: when c.sum_by(*keys) returns, the result has one entity per distinct
\* sub-mapping of the entries' infos restricted to the keys, in sorted order
\* of the sub-mappings, and the entity of a sub-mapping is the sum of exactly
\* the entries of c with that sub-mapping (entries without some or all of
\* the keys included), so that every entry is in exactly one sum.
C12_SumByPartitions ==
    (res.op = "sum_by" /\ res.err = "ok") =>
        LET c == res.self
            groups == Groups(c, res.other)
        IN  /\ len(colls[res.ref]) = Len(groups)
            /\ \A k \in 1..Len(groups) :
                IsSumOf(Entries(res.ref)[k],
                        Pick(Entries(c), GroupOf(c, res.other, groups[k]), len(colls[c])))

\* C13: every entity c.sum_by(*keys) returns has as info the items of its
\* group for the keys; so sum_by('b') on entries with the infos {a: 1, b: 1},
\* {a: 2, b: 1}, {a: 2, b: 2} returns two entities, the sum of the first two
\* with info {b: 1} and the third with info {b: 2}.
C13_SumByInfo ==
    (res.op = "sum_by" /\ res.err = "ok") =>
        LET c == res.self
            groups == Groups(c, res.other)
        IN  /\ len(colls[res.ref]) = Len(groups)
            /\ \A k \in 1..Len(groups) : Entries(res.ref)[k].info = groups[k]
            /\ (/\ res.other = {"b"}
                /\ EntryInfos(c) = << {<<"a", "1">>, <<"b", "1">>},
                                      {<<"a", "2">>, <<"b", "1">>},
                                      {<<"a", "2">>, <<"b", "2">>} >>) =>
                    /\ EntryInfos(res.ref) = << {<<"b", "1">>}, {<<"b", "2">>} >>
                    /\ IsSumOf(Entries(res.ref)[1], SubSeq(Entries(c), 1, 2))
                    /\ IsSumOf(Entries(res.ref)[2], SubSeq(Entries(c), 3, 3))


(***************************************************************************)
(* Two collections (SpecPair): the caller builds a first collection as in  *)
(* Init and a second one from entities of its own, then adds to the first  *)
(* the second, itself, or the entity built last.                           *)
(***************************************************************************)
\* The class and the series of the second collection.
SecondSeries ==
    { <<"RawDOSCollection", <<R2>>>>, <<"GridDOSCollection", <<G3>>>>,
      <<"GridDOSCollection", <<G5>>>>, <<"DOSCollection", <<G1>>>> }

\* The state after the caller has built a collection of any class from up to
\* MaxLen entities of Pool[class] and a second collection of Seconds.
InitPair(Pool, Seconds) ==
    \E cls \in CollectionClasses, n \in 0..MaxLen, second \in Seconds :
        \E first \in [1..n -> Pool[cls]] :
            LET series == first \o second[2]
                m == Len(series)
                built == [i \in 1..m |->
                            Construct(series[i].cls, series[i].e, series[i].w,
                                      InfoFresh(series[i].info))]
                es == [i \in 1..m |->
                            [cls |-> built[i].cls, e |-> built[i].e,
                             w |-> built[i].w, info |-> i]]
                ds == [i \in 1..m |-> built[i].info]
                a == type_self(cls, [i \in 1..n |-> Item(i, EntIn(es, ds, i))])
                b == type_self(second[1],
                               [i \in 1..(m - n) |-> Item(n + i, EntIn(es, ds, n + i))])
            IN  /\ \A i \in 1..m : built[i].err = "ok"
                /\ a.err = "ok"
                /\ b.err = "ok"
                /\ dicts = ds
                /\ ents = es
                /\ origin = [i \in 1..m |-> Built(series[i].e, series[i].w)]
                /\ arrs = <<>>
                /\ colls = <<CollOf(a), CollOf(b)>>
                /\ made = << [by |-> "caller", of |-> 0, args |-> <<>>],
                             [by |-> "caller", of |-> 0, args |-> <<>>] >>
                /\ res = Res("init", "ok", 0, 0, 0)
                /\ steps = 0

\* The entities of the second collection are the ones the caller built last.
PairOperands ==
    {OpNone, OpOther, OpColl(1), OpColl(2), OpData(Len(ents))}

NextPair ==
    \E other \in PairOperands : AddCollection(1, other)

SpecPair == InitPair([cls \in CollectionClasses |-> SeriesPool(cls)], SecondSeries) /\ [][NextPair]_vars


(***************************************************************************)
(* Properties of + (checked under SpecPair).                               *)
(***************************************************************************)
\* The right operand of the last sum as entity values, in order.
OperandEntries(other) ==
    IF other.kind = "collection"
    THEN [j \in 1..len(other.val) |-> getitem(other.val, j - 1).val]
    ELSE <<Ent(other.ref)>>

\* The right operand of the last sum as the members a collection of class
\* cls keeps of it.
OperandMembers(other, cls) ==
    IF other.kind = "collection"
    THEN IF cls = "GridDOSCollection"
         THEN [j \in 1..len(other.val) |->
                 <<getitem(other.val, j - 1).val.w, getitem(other.val, j - 1).val.dict>>]
         ELSE other.val.data
    ELSE IF cls = "GridDOSCollection"
         THEN << <<ents[other.ref].w, ents[other.ref].info>> >>
         ELSE <<other.ref>>

\* The last call was a + b for a collection b of the class of a, or a + d
\* for an entity d.
SumOfSameVariant ==
    /\ res.op = "add"
    /\ \/ res.other.kind = "DOSData"
       \/ res.other.kind = "collection" /\ res.other.val.cls = colls[res.self].cls

\* The last call returned a new collection of the class of a holding the
\* entities of a followed by the entities es, the members of the right
\* operand.
ReturnedJoined(es) ==
    /\ res.err = "ok"
    /\ res.ref \notin {0, res.self}
    /\ res.other.kind = "collection" => res.ref # res.other.ref
    /\ made[res.ref] = Returned("add", res.self, <<res.other>>)
    /\ colls[res.ref].cls = colls[res.self].cls
    /\ Entries(res.ref) = Entries(res.self) \o es
    /\ Members(res.ref) =
           Members(res.self) \o OperandMembers(res.other, colls[res.self].cls)

\* The entities es as a collection c holds them: a GridDOSCollection keeps
\* of each entity the weights and the info dict and hands them out on its
\* own axis, the other classes keep the entity.
HeldBy(c, es) ==
    IF colls[c].cls = "GridDOSCollection"
    THEN [j \in 1..Len(es) |-> [es[j] EXCEPT !.e = colls[c].energies]]
    ELSE es

\* Every collection that existed before the step is as it was.
OperandsKept ==
    [][ res'.op = "add" =>
            \A c \in 1..Len(colls) : colls'[c] = colls[c] ]_vars

\* C14 as stated: for collections a and b of the same class, a + b is a new
\* collection of that class holding the entities of a followed by those of
\* b; for an entity d, a + d is a new collection of the class of a with d
\* last; a and b are left as they were.
C14_Add_AsStated ==
    /\ [](SumOfSameVariant => ReturnedJoined(OperandEntries(res.other)))
    /\ OperandsKept

\* The entities es may be held by a collection of class cls: any by a
\* DOSCollection, RawDOSData by a RawDOSCollection, GridDOSData on the axis
\* of the first (within the tolerance of np.allclose) by a GridDOSCollection.
FitsVariant(cls, es) ==
    IF cls = "RawDOSCollection"
    THEN \A j \in 1..Len(es) : es[j].cls = "RawDOSData"
    ELSE IF cls = "GridDOSCollection"
    THEN \A j \in 1..Len(es) :
            /\ es[j].cls = "GridDOSData"
            /\ AxesClose(es[j].e, es[1].e)
    ELSE TRUE

\* C14: for collections a and b of the same class, and for an entity d, a + b
\* and a + d are new collections of the class of a holding the entities of a
\* followed by those of b, or by d, provided the class of a may hold them
\* all (a RawDOSCollection only RawDOSData, a GridDOSCollection only
\* GridDOSData on one axis, within the tolerance of np.allclose, and it
\* hands them out on the axis of its first entity); otherwise the sum fails
\* with TypeError or ValueError and returns nothing. In all cases a and b
\* are left as they were.
C14_Add ==
    /\ [](SumOfSameVariant =>
            IF FitsVariant(colls[res.self].cls,
                           Entries(res.self) \o OperandEntries(res.other))
            THEN ReturnedJoined(HeldBy(res.self, OperandEntries(res.other)))
            ELSE res.err \in {"TypeError", "ValueError"} /\ res.ref = 0)
    /\ OperandsKept

\* C14 witness: a RawDOSCollection of two entities and the second collection,
\* a RawDOSCollection of one other entity, have been added to a collection
\* of three.
C14_Witness ==
    /\ res.op = "add" /\ res.err = "ok"
    /\ res.other.kind = "collection" /\ res.other.ref = 2
    /\ colls[res.self].cls = "RawDOSCollection"
    /\ len(colls[res.self]) = 2
    /\ len(colls[res.ref]) = 3
    /\ Entries(res.self)[1] # Entries(2)[1]


\* C15: collection + x fails with TypeError for every right operand x that is
\* neither a collection of the class of the left operand, nor an entity, nor
\* None; in particular for a collection of another class (DOSCollection +
\* RawDOSCollection, RawDOSCollection + DOSCollection).
C15_AddOtherFails ==
    (/\ res.op = "add"
     /\ res.other.kind \notin {"DOSData", "None"}
     /\ ~(/\ res.other.kind = "collection"
          /\ res.other.val.cls = colls[res.self].cls)) =>
        res.err = "TypeError"



(***************************************************************************)
(* The entities a collection may hold (SpecBuild): the caller builds two   *)
(* collections, then a collection of any class from the entities of both,  *)
(* and adds to the first the second or the entity built last.              *)
(***************************************************************************)
\* s = cls(list(colls[1]) + list(colls[2]))
Build(cls) ==
    /\ steps < MaxSteps
    /\ LET dos_series == Iter(colls[1]) \o Iter(colls[2])
       IN  ReturnBuilt("build", 1, cls, type_self(cls, dos_series), dos_series)
    /\ steps' = steps + 1
    /\ UNCHANGED <<dicts, arrs>>

NextBuild ==
    \/ \E cls \in CollectionClasses : Build(cls)
    \/ \E other \in {OpColl(2), OpData(Len(ents))} : AddCollection(1, other)

SpecBuild == InitPair([cls \in CollectionClasses |-> SeriesPool(cls)], SecondSeries) /\ [][NextBuild]_vars

\* Collection c holds only what its class may hold: a RawDOSCollection
\* RawDOSData, a GridDOSCollection rows that make GridDOSData on its one
\* axis.
HoldsOnlyItsKind(c) ==
    IF colls[c].cls = "RawDOSCollection"
    THEN \A j \in 1..Len(colls[c].data) : ents[colls[c].data[j]].cls = "RawDOSData"
    ELSE IF colls[c].cls = "GridDOSCollection"
    THEN \A j \in 1..len(colls[c]) :
            /\ Entries(c)[j].err = "ok"
            /\ Entries(c)[j].cls = "GridDOSData"
            /\ Entries(c)[j].e = Entries(c)[1].e
    ELSE TRUE

\* The class and the entities of the collection the last call was to make.
AskedClass == IF res.op = "build" THEN res.other ELSE colls[res.self].cls
AskedEntries ==
    IF res.op = "build" THEN Entries(1) \o Entries(2)
    ELSE Entries(res.self) \o OperandEntries(res.other)

DOSData_eq(a, b) == a.id # 0 /\ a.id = b.id

\* DOSCollection.__eq__
DOSCollection_eq(self, other) ==
    IF ~(other.kind = "collection" /\ IsInstance(other.val.cls, self.val.cls))
    THEN FALSE
    ELSE IF len(self.val) # len(other.val) THEN FALSE
    ELSE LET a == Iter(self.val)
             b == Iter(other.val)
         IN  \A j \in 1..Len(a) : j <= Len(b) => DOSData_eq(a[j], b[j])

\* left == right as Python evaluates it for a collection left: when the class
\* of right is a proper subclass of the class of left, right.__eq__(left) is
\* called first; __eq__ here always returns a bool, never NotImplemented, so
\* the first call decides.
binary_eq(left, right) ==
    IF /\ right.kind = "collection"
       /\ right.val.cls # left.val.cls
       /\ IsInstance(right.val.cls, left.val.cls)
    THEN DOSCollection_eq(right, left)
    ELSE DOSCollection_eq(left, right)

\* How the second collection is built from the series of the first: from the
\* same entity objects, from new entities of the same values, from the same
\* objects without the last, or from new entities of which the last differs.
Sharings == {"same objects", "same values", "shorter", "last differs"}

\* An entity that differs from the template t in its weights and its info.
Differing(t) == [t EXCEPT !.w = [i \in 1..Len(t.w) |-> t.w[i] + 1], !.info = {<<"b", "2">>}]

\* The state after the caller has built a collection of any class from up to
\* MaxLen entities of Pool[class] and a second collection of any class from
\* the same series, shared with the first as one of Sharings says.
InitEq(Pool) ==
    \E cls \in CollectionClasses, cls2 \in CollectionClasses,
       n \in 0..MaxLen, sharing \in Sharings :
        \E first \in [1..n -> Pool[cls]] :
            LET shared == sharing \in {"same objects", "shorter"}
                second == IF sharing = "last differs" /\ n > 0
                          THEN [first EXCEPT ![n] = Differing(first[n])]
                          ELSE first
                series == IF shared THEN first ELSE first \o second
                m == Len(series)
                k == IF sharing = "shorter" /\ n > 0 THEN n - 1 ELSE n
                built == [i \in 1..m |->
                            Construct(series[i].cls, series[i].e, series[i].w,
                                      InfoFresh(series[i].info))]
                es == [i \in 1..m |->
                            [cls |-> built[i].cls, e |-> built[i].e,
                             w |-> built[i].w, info |-> i]]
                ds == [i \in 1..m |-> built[i].info]
                at(i) == IF shared THEN i ELSE n + i
                a == type_self(cls, [i \in 1..n |-> Item(i, EntIn(es, ds, i))])
                b == type_self(cls2, [i \in 1..k |-> Item(at(i), EntIn(es, ds, at(i)))])
            IN  /\ \A i \in 1..m : built[i].err = "ok"
                /\ a.err = "ok"
                /\ b.err = "ok"
                /\ dicts = ds
                /\ ents = es
                /\ origin = [i \in 1..m |-> Built(series[i].e, series[i].w)]
                /\ arrs = <<>>
                /\ colls = <<CollOf(a), CollOf(b)>>
                /\ made = << [by |-> "caller", of |-> 0, args |-> <<>>],
                             [by |-> "caller", of |-> 0, args |-> <<>>] >>
                /\ res = Res("init", "ok", 0, 0, 0)
                /\ steps = 0

\* r = (c == other); res.ref is 1 for True and 0 for False
Eq(c, other) ==
    /\ steps < MaxSteps
    /\ res' = Res("eq", "ok", c, other,
                  IF binary_eq(OpColl(c), other) THEN 1 ELSE 0)
    /\ steps' = steps + 1
    /\ UNCHANGED <<dicts, ents, arrs, colls, origin, made>>

NextEq ==
    \E c \in 1..Len(colls), other \in {OpNone, OpOther, OpColl(1), OpColl(2)} :
        Eq(c, other)

SpecEq == InitEq([cls \in CollectionClasses |-> SeriesPool(cls)]) /\ [][NextEq]_vars

\* Two entity values are equal by value: same class, energies, weights and
\* info.
ValueEqual(x, y) ==
    /\ x.cls = y.cls /\ x.e = y.e /\ x.w = y.w /\ x.info = y.info

\* C16: two collections compare equal if and only if they are of the same
\* class, have the same length, and their entities are pairwise equal by
\* value (energies, weights, info), whether or not the entities are the same
\* objects.
C16_EqualByValue ==
    (res.op = "eq" /\ res.other.kind = "collection") =>
        LET c == res.self
            d == res.other.ref
        IN  (res.ref = 1) <=>
                /\ colls[c].cls = colls[d].cls
                /\ len(colls[c]) = len(colls[d])
                /\ \A j \in 1..len(colls[c]) :
                       j <= len(colls[d]) => ValueEqual(Entries(c)[j], Entries(d)[j])


(***************************************************************************)
(* Indexing with ints, slices and other objects, and len() (SpecIndex).    *)
(* An absent slice field (None) is <<>>, a given one <<k>>.                *)
(***************************************************************************)
Min(a, b) == IF a <= b THEN a ELSE b
Max(a, b) == IF a >= b THEN a ELSE b

\* An index: an int i, slice(start, stop, step), or an object of another
\* type, as the tuple <<kind, i, start, stop, step>>.
IntIndex(i) == <<"int", i, <<>>, <<>>, <<>>>>
Slice(start, stop, step) == <<"slice", 0, start, stop, step>>
OtherIndex == <<"other", 0, <<>>, <<>>, <<>>>>
KindOf(item) == item[1]
IntOf(item) == item[2]
StartOf(item) == item[3]
StopOf(item) == item[4]
StepOf(item) == item[5]

\* slice.indices(n) as list and range apply it to an item of kind slice:
\* the step defaults to 1, negative bounds count from the end, and all
\* bounds are clipped to the sequence; a step of 0 raises ValueError.  The
\* result is <<err, start, stop, step>>.
slice_indices(item, n) ==
    LET step == IF StepOf(item) = <<>> THEN 1 ELSE StepOf(item)[1]
        lower == IF step < 0 THEN 0 - 1 ELSE 0
        upper == IF step < 0 THEN n - 1 ELSE n
        adjust(v) == IF v < 0 THEN Max(v + n, lower) ELSE Min(v, upper)
    IN  IF step = 0 THEN <<"ValueError", 0, 0, 0>>
        ELSE <<"ok",
               IF StartOf(item) = <<>>
               THEN (IF step < 0 THEN upper ELSE lower)
               ELSE adjust(StartOf(item)[1]),
               IF StopOf(item) = <<>>
               THEN (IF step < 0 THEN lower ELSE upper)
               ELSE adjust(StopOf(item)[1]),
               step>>

\* list(range(start, stop, step))
RECURSIVE range(_, _, _)
range(start, stop, step) ==
    IF (step > 0 /\ start >= stop) \/ (step < 0 /\ start <= stop) THEN <<>>
    ELSE <<start>> \o range(start + step, stop, step)

\* The result of c[item]: an exception, one item, or a list of items.
One(it) == [err |-> it.err, list |-> FALSE, items |-> <<it>>]
Several(items) == [err |-> "ok", list |-> TRUE, items |-> items]
Raise(err) == [err |-> err, list |-> FALSE, items |-> <<>>]

\* DOSCollection.__getitem__: self._data[item] for an int or a slice
DOSCollection_getitem_item(c, item) ==
    IF KindOf(item) = "int" THEN One(DOSCollection_getitem(c, IntOf(item)))
    ELSE IF KindOf(item) = "slice"
    THEN LET ind == slice_indices(item, Len(c.data))
             at == range(ind[2], ind[3], ind[4])
         IN  IF ind[1] # "ok" THEN Raise(ind[1])
             ELSE Several([k \in 1..Len(at) |->
                             Item(c.data[at[k] + 1], Ent(c.data[at[k] + 1]))])
    ELSE Raise("TypeError")

\* GridDOSCollection.__getitem__ taking every slice as it stands, step and
\* direction ignored
GridDOSCollection_getitem_item_no_step(c, item) ==
    IF KindOf(item) = "int" THEN One(GridDOSCollection_getitem(c, IntOf(item)))
    ELSE IF KindOf(item) = "slice"
    THEN LET ind == slice_indices(Slice(StartOf(item), StopOf(item), <<>>), len(c))
             at == range(ind[2], ind[3], ind[4])
         IN  Several([k \in 1..Len(at) |-> GridDOSCollection_getitem(c, at[k])])
    ELSE Raise("TypeError")

\* GridDOSCollection.__getitem__: for a slice,
\* [self[i] for i in range(len(self))[item]]
GridDOSCollection_getitem_item(c, item) ==
    IF KindOf(item) = "int" THEN One(GridDOSCollection_getitem(c, IntOf(item)))
    ELSE IF KindOf(item) = "slice"
    THEN LET ind == slice_indices(item, len(c))
             at == range(ind[2], ind[3], ind[4])
         IN  IF ind[1] # "ok" THEN Raise(ind[1])
             ELSE Several([k \in 1..Len(at) |-> GridDOSCollection_getitem(c, at[k])])
    ELSE Raise("TypeError")

\* self[item]
getitem_item(c, item) ==
    IF c.cls = "GridDOSCollection" THEN GridDOSCollection_getitem_item(c, item)
    ELSE DOSCollection_getitem_item(c, item)

\* The fields of the slices the caller indexes with.
Starts == {<<>>, <<1>>, <<0 - 5>>}
Stops == {<<>>, <<0 - 1>>, <<5>>}
Steps == {<<>>, <<2>>, <<0 - 1>>, <<0>>}

\* r = c[item]; res.ref holds what was returned, a list as a sequence of
\* items and a single entity as a sequence of one.  The objects a
\* GridDOSCollection makes are held by the result alone.
Index(c, item) ==
    /\ steps < MaxSteps
    /\ LET r == getitem_item(colls[c], item)
       IN  res' = Res(IF r.list THEN "getslice" ELSE "getitem", r.err, c, item, r.items)
    /\ steps' = steps + 1
    /\ UNCHANGED <<dicts, ents, arrs, colls, origin, made>>

\* r = len(c)
LenOf(c) ==
    /\ steps < MaxSteps
    /\ res' = Res("len", "ok", c, 0, len(colls[c]))
    /\ steps' = steps + 1
    /\ UNCHANGED <<dicts, ents, arrs, colls, origin, made>>

NextIndex ==
    \/ \E item \in Indices(colls[1]) : Index(1, IntIndex(item))
    \/ \E start \in Starts, stop \in Stops, step \in Steps :
            Index(1, Slice(start, stop, step))
    \/ Index(1, OtherIndex)
    \/ LenOf(1)

\* Two different entities of each kind are enough to tell positions apart.
IndexPool(cls) ==
    IF cls = "RawDOSCollection" THEN {R1, R2}
    ELSE IF cls = "GridDOSCollection" THEN {G1, G2}
    ELSE {R1, G1}

SpecIndex == InitFrom([cls \in CollectionClasses |-> IndexPool(cls)]) /\ [][NextIndex]_vars

\* The positions, from 0, that the slice item selects from a list of n
\* items, in the order the slice gives them: those between the clipped
\* bounds that are a whole number of steps from the first.
Clip(v, n, low, high) == IF v < 0 THEN Max(v + n, low) ELSE Min(v, high)
Selected(item, n) ==
    LET step == IF StepOf(item) = <<>> THEN 1 ELSE StepOf(item)[1]
        first == IF step > 0
                 THEN (IF StartOf(item) = <<>> THEN 0 ELSE Clip(StartOf(item)[1], n, 0, n))
                 ELSE (IF StartOf(item) = <<>> THEN n - 1
                       ELSE Clip(StartOf(item)[1], n, 0 - 1, n - 1))
        end == IF step > 0
               THEN (IF StopOf(item) = <<>> THEN n ELSE Clip(StopOf(item)[1], n, 0, n))
               ELSE (IF StopOf(item) = <<>> THEN 0 - 1
                     ELSE Clip(StopOf(item)[1], n, 0 - 1, n - 1))
        S == IF step > 0
             THEN {i \in 0..(n - 1) : i >= first /\ i < end /\ (i - first) % step = 0}
             ELSE {i \in 0..(n - 1) : i <= first /\ i > end /\ (first - i) % (0 - step) = 0}
        before(i, j) == IF step > 0 THEN i < j ELSE i > j
    IN  [k \in 1..Cardinality(S) |->
            CHOOSE i \in S : Cardinality({j \in S : before(j, i)}) = k - 1]

\* The item it is the p-th entity the caller built the first collection of:
\* the object itself, or for a GridDOSCollection a GridDOSData of its
\* weights and info dict on the axis of the first entity.
IsEntityAt(it, p) ==
    IF colls[1].cls = "GridDOSCollection"
    THEN /\ it.err = "ok"
         /\ it.val.cls = "GridDOSData"
         /\ it.val.e = ents[1].e
         /\ it.val.w = ents[p].w
         /\ it.val.info = dicts[ents[p].info]
    ELSE it.id = p

\* C18: len(c) is the number of entities c was built of; c[i] for an int i
\* in range is the entity at that position, counted from the end for a
\* negative i; c[slice] is the list of the entities the slice selects from a
\* list of len(c) items, in that order; an index that is neither an int nor
\* a slice raises TypeError.
C18_Indexing ==
    LET n == Cardinality(CallerBuilt) IN
    /\ res.op = "len" => res.ref = n
    /\ (res.op = "getitem" /\ KindOf(res.other) = "int"
                           /\ IntOf(res.other) \in (0 - n)..(n - 1)) =>
            /\ res.err = "ok"
            /\ IsEntityAt(res.ref[1],
                          1 + (IF IntOf(res.other) < 0 THEN IntOf(res.other) + n ELSE IntOf(res.other)))
    /\ (res.op \in {"getitem", "getslice"} /\ KindOf(res.other) = "slice"
                                           /\ StepOf(res.other) # <<0>>) =>
            LET at == Selected(res.other, n) IN
            /\ res.err = "ok"
            /\ res.op = "getslice"
            /\ Len(res.ref) = Len(at)
            /\ \A k \in 1..Len(at) : IsEntityAt(res.ref[k], at[k] + 1)
    /\ (res.op \in {"getitem", "getslice"} /\ KindOf(res.other) = "other") =>
            res.err = "TypeError"

\* C18 witness: c[::-1] on a collection of three entries has returned the
\* three in reverse order.
C18_Witness ==
    /\ res.op = "getslice"
    /\ res.other = Slice(<<>>, <<>>, <<0 - 1>>)
    /\ Cardinality(CallerBuilt) = 3
    /\ Len(res.ref) = 3
    /\ IsEntityAt(res.ref[1], 3) /\ IsEntityAt(res.ref[3], 1)
    /\ ~IsEntityAt(res.ref[1], 1)


(***************************************************************************)
(* from_data (SpecFromData).  The weights argument is <<ndim, rows>>: a    *)
(* nested sequence <<2, rows>> of one or more rows, or a flat sequence     *)
(* <<1, values>>, [] included.  The info argument is <<FALSE, <<>>>> for   *)
(* None and <<TRUE, refs>> for a sequence of dicts of the caller.          *)
(***************************************************************************)
\* np.asarray(weights, dtype=float): <<err, shape>>; rows of different
\* lengths make no array.
asarray(weights) ==
    IF weights[1] = 1 THEN <<"ok", <<Len(weights[2])>> >>
    ELSE IF \E i \in 1..Len(weights[2]) : Len(weights[2][i]) # Len(weights[2][1])
    THEN <<"ValueError", <<>> >>
    ELSE <<"ok", <<Len(weights[2]), Len(weights[2][1])>> >>

\* _check_weights_and_info accepting an info of any length
_check_weights_and_info_any_length(weights, info) ==
    IF ~info[1]
    THEN [err |-> "ok", info |-> [i \in 1..Len(weights[2]) |-> Len(dicts) + i]]
    ELSE [err |-> "ok", info |-> info[2]]

\* DOSCollection._check_weights_and_info: the dicts to use, new empty ones
\* (the references after those of the heap) when info is None
_check_weights_and_info(weights, info) ==
    IF ~info[1]
    THEN [err |-> "ok", info |-> [i \in 1..Len(weights[2]) |-> Len(dicts) + i]]
    ELSE IF Len(info[2]) # Len(weights[2])
    THEN [err |-> "ValueError", info |-> <<>>]
    ELSE [err |-> "ok", info |-> info[2]]

\* The dict d as the info argument of a constructor, d a dict of the heap
\* or one made during the call, which is empty.
InfoRow(d) ==
    [kind |-> "dict", ref |-> d, val |-> IF d <= Len(dicts) THEN dicts[d] ELSE {}]

\* RawDOSData(energies, row_weights, row_info) for row i of zip(weights,
\* info); a row of a flat sequence is a number and has no len()
RowData(energies, weights, info, i) ==
    IF weights[1] = 1 THEN Fail("TypeError")
    ELSE RawDOSData_init(energies, weights[2][i], InfoRow(info[i]))

\* DOSCollection.from_data, for cls DOSCollection or RawDOSCollection: the
\* rows as items, or the exception of the first row that raises one
DOSCollection_from_data(cls, energies, weights, info) ==
    LET checked == _check_weights_and_info(weights, info) IN
    IF checked.err # "ok" THEN [err |-> checked.err, items |-> <<>>]
    ELSE LET n == Min(Len(weights[2]), Len(checked.info))
             rows == [i \in 1..n |-> RowData(energies, weights, checked.info, i)]
             bad == {i \in 1..n : rows[i].err # "ok"}
         IN  IF bad # {}
             THEN [err |-> rows[CHOOSE i \in bad : \A j \in bad : i <= j].err,
                   items |-> <<>>]
             ELSE [err |-> "ok", items |-> [i \in 1..n |-> Item(0, rows[i])]]

\* GridDOSCollection.from_data without the checks of the shape
GridDOSCollection_from_data_no_shape_check(energies, weights, info) ==
    LET checked == _check_weights_and_info(weights, info)
        first == GridDOSData_init(energies, energies, InfoNone)
    IN  IF checked.err # "ok" THEN CFail(checked.err)
        ELSE IF first.err # "ok" THEN CFail(first.err)
        ELSE LET dos_collection == GridDOSCollection_init(<<Item(0, first)>>)
             IN  IF dos_collection.err # "ok" THEN dos_collection
                 ELSE [dos_collection EXCEPT !.weights = weights[2],
                                             !.info = checked.info]

\* GridDOSCollection.from_data
GridDOSCollection_from_data(energies, weights, info) ==
    LET weights_array == asarray(weights)
        shape == weights_array[2]
    IN  IF weights_array[1] # "ok" THEN CFail(weights_array[1])
        ELSE IF Len(shape) # 2 THEN CFail("IndexError")
        ELSE IF shape[1] < 1 THEN CFail("IndexError")
        ELSE IF shape[2] # Len(energies) THEN CFail("IndexError")
        ELSE LET checked == _check_weights_and_info(weights, info)
                 first == GridDOSData_init(energies, weights[2][1], InfoNone)
             IN  IF checked.err # "ok" THEN CFail(checked.err)
                 ELSE IF first.err # "ok" THEN CFail(first.err)
                 ELSE LET dos_collection == GridDOSCollection_init(<<Item(0, first)>>)
                      IN  IF dos_collection.err # "ok" THEN dos_collection
                          ELSE [dos_collection EXCEPT !.weights = weights[2],
                                                      !.info = checked.info]

\* The dicts the caller has made before the call.
CallerDicts == << {<<"a", "1">>, <<"b", "1">>}, {<<"a", "2">>} >>

\* The arguments of from_data.
EnergyArgs == { <<>>, <<5>>, <<0, 1, 2>>, <<0, 1, 3>> }
WeightArgs ==
    { <<1, <<>> >>, <<1, <<1, 2, 3>> >>, <<2, << <<>> >> >>, <<2, << <<7>> >> >>,
      <<2, << <<1, 2, 3>> >> >>, <<2, << <<1, 2, 3>>, <<4, 5, 6>> >> >>,
      <<2, << <<1, 2>>, <<3, 4>> >> >>, <<2, << <<1, 2, 3>>, <<4, 5>> >> >> }
InfoArgs == { <<FALSE, <<>> >>, <<TRUE, <<>> >>, <<TRUE, <<1>> >>, <<TRUE, <<2, 1>> >> }

\* Before the first call: the caller's dicts, no entity and no collection.
InitFromData ==
    /\ dicts = CallerDicts
    /\ ents = <<>>
    /\ origin = <<>>
    /\ arrs = <<>>
    /\ colls = <<>>
    /\ made = <<>>
    /\ res = Res("init", "ok", 0, 0, 0)
    /\ steps = 0

\* c = cls.from_data(energies, weights, info), for a caller that has no
\* collection yet
FromData(cls, energies, weights, info) ==
    /\ steps < MaxSteps
    /\ colls = <<>>
    /\ LET arg == <<cls, energies, weights, info>>
           fresh == IF info[1] THEN <<>> ELSE [i \in 1..Len(weights[2]) |-> {}]
       IN  IF cls = "GridDOSCollection"
           THEN \E v \in {GridDOSCollection_from_data(energies, weights, info)} :
                   /\ ReturnBuilt("from_data", 0, arg, v, <<>>)
                   /\ dicts' = IF v.err = "ok" THEN dicts \o fresh ELSE dicts
           ELSE \E r \in {DOSCollection_from_data(cls, energies, weights, info)} :
                   /\ ReturnBuilt("from_data", 0, arg,
                                  IF r.err = "ok" THEN type_self(cls, r.items)
                                  ELSE CFail(r.err),
                                  r.items)
                   /\ dicts' = IF r.err = "ok" THEN dicts \o fresh ELSE dicts
    /\ steps' = steps + 1
    /\ UNCHANGED arrs

NextFromData ==
    \E cls \in CollectionClasses, energies \in EnergyArgs,
       weights \in WeightArgs, info \in InfoArgs :
        FromData(cls, energies, weights, info)

SpecFromData == InitFromData /\ [][NextFromData]_vars

\* The arguments of the last call.
ClsArg == res.other[1]
EnergiesArg == res.other[2]
WeightsArg == res.other[3]
InfoArg == res.other[4]
RowsArg == WeightsArg[2]

\* The weights are not 2-D, have no rows, or have a row whose length is not
\* that of the energies.
BadShape ==
    \/ WeightsArg[1] # 2
    \/ RowsArg = <<>>
    \/ \E i \in 1..Len(RowsArg) : Len(RowsArg[i]) # Len(EnergiesArg)

InfoMismatch == InfoArg[1] /\ Len(InfoArg[2]) # Len(RowsArg)

\* The info dict of entry i of collection c, as an object.
EntryDict(c, i) ==
    IF colls[c].cls = "GridDOSCollection" THEN colls[c].info[i]
    ELSE ents[colls[c].data[i]].info

\* The last call returned a collection of the asked class with one entity of
\* class kind per row: the energies, row i of the weights, and the dict
\* info[i], or a dict of its own, new and empty, when info is None.
OnePerRow(kind) ==
    /\ res.err = "ok"
    /\ res.ref # 0
    /\ colls[res.ref].cls = ClsArg
    /\ len(colls[res.ref]) = Len(RowsArg)
    /\ \A i \in 1..Len(RowsArg) :
        /\ Entries(res.ref)[i].err = "ok"
        /\ Entries(res.ref)[i].cls = kind
        /\ Entries(res.ref)[i].e = EnergiesArg
        /\ Entries(res.ref)[i].w = RowsArg[i]
        /\ IF InfoArg[1]
           THEN EntryDict(res.ref, i) = InfoArg[2][i]
           ELSE /\ EntryDict(res.ref, i) > Len(CallerDicts)
                /\ dicts[EntryDict(res.ref, i)] = {}
                /\ \A j \in 1..Len(RowsArg) :
                       j # i => EntryDict(res.ref, j) # EntryDict(res.ref, i)

KindOfRows == IF ClsArg = "GridDOSCollection" THEN "GridDOSData" ELSE "RawDOSData"

\* C19 as stated: from_data, for DOSCollection, RawDOSCollection and
\* GridDOSCollection alike, fails with IndexError when the weights are not
\* 2-D, have no rows, or have a row of another length than the energies;
\* with ValueError when info is given with another length than the number
\* of rows; otherwise it returns a collection with one entity per row.
C19_FromData_AsStated ==
    res.op = "from_data" =>
        IF BadShape THEN res.err = "IndexError"
        ELSE IF InfoMismatch THEN res.err = "ValueError"
        ELSE OnePerRow(KindOfRows)

\* Energies with equal steps between neighbours.
EvenlySpaced(e) ==
    \A i \in 2..(Len(e) - 1) : e[i + 1] - e[i] = e[i] - e[i - 1]

\* The rows of 2-D weights have different lengths.
Ragged ==
    /\ WeightsArg[1] = 2
    /\ \E i \in 1..Len(RowsArg) : Len(RowsArg[i]) # Len(RowsArg[1])

\* C19: GridDOSCollection.from_data validates the shapes first: rows of
\* different lengths fail with ValueError; weights that are not 2-D, have no
\* rows, or whose rows are not as long as the energies, with IndexError;
\* then an info of another length than the number of rows with ValueError;
\* then empty energies with IndexError and energies that are not evenly
\* spaced with ValueError; otherwise the result has one GridDOSData per
\* row.  DOSCollection.from_data and RawDOSCollection.from_data check the
\* info first (ValueError) and build one RawDOSData per row: a flat sequence
\* of numbers fails with TypeError, a row of another length than the
\* energies with ValueError, and weights without rows give an empty
\* collection.  Entity i holds the energies, row i and info[i] itself, or a
\* new empty dict of its own when info is None.
C19_FromData ==
    res.op = "from_data" =>
        IF ClsArg = "GridDOSCollection"
        THEN IF Ragged THEN res.err = "ValueError"
             ELSE IF BadShape THEN res.err = "IndexError"
             ELSE IF InfoMismatch THEN res.err = "ValueError"
             ELSE IF EnergiesArg = <<>> THEN res.err = "IndexError"
             ELSE IF ~EvenlySpaced(EnergiesArg) THEN res.err = "ValueError"
             ELSE OnePerRow("GridDOSData")
        ELSE IF InfoMismatch THEN res.err = "ValueError"
             ELSE IF WeightsArg[1] = 1 /\ RowsArg # <<>> THEN res.err = "TypeError"
             ELSE IF \E i \in 1..Len(RowsArg) : Len(RowsArg[i]) # Len(EnergiesArg)
             THEN res.err = "ValueError"
             ELSE OnePerRow("RawDOSData")

\* C19 witness: GridDOSCollection.from_data([0, 1, 2], [[1, 2, 3], [4, 5, 6]],
\* [d2, d1]) has returned a collection of two entries that hold the caller's
\* dicts.
C19_Witness ==
    /\ res.op = "from_data" /\ res.err = "ok"
    /\ ClsArg = "GridDOSCollection"
    /\ EnergiesArg = <<0, 1, 2>>
    /\ InfoArg = <<TRUE, <<2, 1>> >>
    /\ len(colls[res.ref]) = 2
    /\ Entries(res.ref)[2].w = <<4, 5, 6>>
    /\ Entries(res.ref)[2].info = CallerDicts[1]


(***************************************************************************)
(* Constructing entities from any energies and weights (SpecConstruct).    *)
(***************************************************************************)
\* The energies and weights the caller constructs entities from: empty,
\* one point, evenly spaced up and down, and not evenly spaced.
EnergyInputs == { <<>>, <<5>>, <<0, 1>>, <<0, 1, 2>>, <<2, 1, 0>>, <<0, 1, 3>> }
WeightInputs == { <<>>, <<1>>, <<1, 2>>, <<1, 2, 3>> }

\* Before the first construction: nothing on the heap.
InitConstruct ==
    /\ dicts = <<>>
    /\ ents = <<>>
    /\ origin = <<>>
    /\ arrs = <<>>
    /\ colls = <<>>
    /\ made = <<>>
    /\ res = Res("init", "ok", 0, 0, 0)
    /\ steps = 0

\* x = cls(energies, weights)
NewData(cls, energies, weights) ==
    /\ steps < MaxSteps
    /\ LET v == Construct(cls, energies, weights, InfoNone) IN
        IF v.err = "ok"
        THEN /\ dicts' = DictsWith(v)
             /\ ents' = Append(ents, EntOf(v))
             /\ origin' = Append(origin, Built(energies, weights))
             /\ res' = Res("construct", "ok", 0, <<cls, energies, weights>>, Len(ents) + 1)
        ELSE /\ res' = Res("construct", v.err, 0, <<cls, energies, weights>>, 0)
             /\ UNCHANGED <<dicts, ents, origin>>
    /\ steps' = steps + 1
    /\ UNCHANGED <<arrs, colls, made>>

NextConstruct ==
    \E cls \in {"RawDOSData", "GridDOSData"},
       energies \in EnergyInputs, weights \in WeightInputs :
        NewData(cls, energies, weights)

SpecConstruct == InitConstruct /\ [][NextConstruct]_vars

\* C20: constructing a RawDOSData or a GridDOSData fails with ValueError
\* whenever energies and weights differ in length, and constructing a
\* GridDOSData fails with ValueError whenever its energies are not evenly
\* spaced; every other input of equal lengths, zero-length and one-point
\* sequences included, constructs or fails with ValueError, never with
\* another exception.
C20_Construction ==
    res.op = "construct" =>
        LET cls == res.other[1]
            energies == res.other[2]
            weights == res.other[3]
        IN  /\ Len(energies) # Len(weights) => res.err = "ValueError"
            /\ (cls = "GridDOSData" /\ ~EvenlySpaced(energies)) =>
                    res.err = "ValueError"
            /\ res.err \in {"ok", "ValueError"}


(***************************************************************************)
(* The info given at construction (SpecInfo).  Keys and values that are no *)
(* str are the tokens of NotStr.                                           *)
(***************************************************************************)
NotStr == {"1(int)", "2(int)"}

\* The info arguments: None, an object that is no dict (a list, a str, a
\* mapping of another class), and dicts with str and other keys and values,
\* as <<kind, items>>.
InfoInputs ==
    { <<"None", {}>>, <<"other", {}>>, <<"dict", {}>>,
      <<"dict", {<<"a", "1">>}>>, <<"dict", {<<"a", "2(int)">>}>>,
      <<"dict", {<<"1(int)", "1">>}>>,
      <<"dict", {<<"a", "1">>, <<"1(int)", "2(int)">>}>> }

\* x = cls(energies, weights, info) for valid energies and weights
NewDataWithInfo(cls, info) ==
    /\ steps < MaxSteps
    /\ LET data == IF cls = "GridDOSData" THEN D3 ELSE D1
           v == Construct(cls, data[1], data[2],
                          [kind |-> info[1], ref |-> 0, val |-> info[2]])
       IN  IF v.err = "ok"
           THEN /\ dicts' = DictsWith(v)
                /\ ents' = Append(ents, EntOf(v))
                /\ origin' = Append(origin, Built(data[1], data[2]))
                /\ res' = Res("construct_info", "ok", 0, <<cls, info>>, Len(ents) + 1)
           ELSE /\ res' = Res("construct_info", v.err, 0, <<cls, info>>, 0)
                /\ UNCHANGED <<dicts, ents, origin>>
    /\ steps' = steps + 1
    /\ UNCHANGED <<arrs, colls, made>>

NextInfo ==
    \E cls \in {"RawDOSData", "GridDOSData"}, info \in InfoInputs :
        NewDataWithInfo(cls, info)

SpecInfo == InitConstruct /\ [][NextInfo]_vars

\* Every key and every value of the items is a str.
StrToStr(items) == \A p \in items : p[1] \notin NotStr /\ p[2] \notin NotStr

\* C21 as stated: construction succeeds with an empty info when info is
\* absent and with the given info when it is a mapping from str to str; any
\* other info, a mapping with a key or a value that is no str included,
\* fails with TypeError.
C21_InfoType_AsStated ==
    res.op = "construct_info" =>
        LET info == res.other[2] IN
        IF info[1] = "None" THEN res.err = "ok" /\ InfoOf(res.ref) = {}
        ELSE IF info[1] = "dict" /\ StrToStr(info[2])
        THEN res.err = "ok" /\ InfoOf(res.ref) = info[2]
        ELSE res.err = "TypeError"

\* C21: construction succeeds with an empty info when info is absent and
\* with the given info when it is a dict, whatever its keys and values are;
\* an info that is neither None nor a dict fails with TypeError.
C21_InfoType ==
    res.op = "construct_info" =>
        LET info == res.other[2] IN
        IF info[1] = "None" THEN res.err = "ok" /\ InfoOf(res.ref) = {}
        ELSE IF info[1] = "dict"
        THEN res.err = "ok" /\ InfoOf(res.ref) = info[2]
        ELSE res.err = "TypeError" /\ res.ref = 0

\* C21 witness: a GridDOSData has been built with the info {a: 1} and a
\* construction with an info that is no dict has failed before it.
C21_Witness ==
    /\ res.op = "construct_info" /\ res.err = "ok"
    /\ res.other = <<"GridDOSData", <<"dict", {<<"a", "1">>}>> >>
    /\ InfoOf(res.ref) = {<<"a", "1">>}
    /\ steps = 2 /\ Len(ents) = 1


(***************************************************************************)
(* Sampling (SpecSample).  Energies and widths are whole numbers of one    *)
(* energy unit; kernel values are in units of 1/10000 per energy unit.     *)
(***************************************************************************)

\* exp(-0.5 * (d / width)**2) / (sqrt(2 * pi) * width), rounded to 1/10000,
\* for the widths 1 and 2 and distances up to 6.
GaussTable ==
    << <<3989, 2420, 540, 44, 1, 0, 0>>,
       <<1995, 1760, 1210, 648, 270, 88, 22>> >>

Gauss(d, width) == IF Abs(d) > 6 THEN 0 ELSE GaussTable[width][Abs(d) + 1]

\* str.lower on the smearing names in use
lower(name) ==
    IF name \in {"Gauss", "GAUSS", "gauss"} THEN "gauss"
    ELSE IF name \in {"Lorentz", "lorentz"} THEN "lorentz"
    ELSE name

\* The outcome of a sampling call: the exception or "ok", whether a warning
\* was issued, and the array returned.
Sampled(err, warned, val) == [err |-> err, warned |-> warned, val |-> val]

\* DOSData._delta
_delta(x, x0, width, smearing) ==
    IF lower(smearing) = "gauss"
    THEN Sampled("ok", FALSE, [i \in 1..Len(x) |-> Gauss(x[i] - x0, width)])
    ELSE Sampled("ValueError", FALSE, <<>>)

\* DOSData._check_positive_width: TRUE when it raises ValueError
_check_positive_width(width) == width <= 0

\* The loop of DOSData._sample from stored pair i on, weights_grid so far.
RECURSIVE SampleFrom(_, _, _, _, _, _)
SampleFrom(self, i, weights_grid, energies, width, smearing) ==
    IF i > Len(self.e) THEN Sampled("ok", FALSE, weights_grid)
    ELSE LET delta == _delta(energies, self.e[i], width, smearing) IN
         IF delta.err # "ok" THEN delta
         ELSE SampleFrom(self, i + 1,
                         [j \in 1..Len(energies) |->
                             weights_grid[j] + self.w[i] * delta.val[j]],
                         energies, width, smearing)

\* DOSData._sample
DOSData_sample(self, energies, width, smearing) ==
    IF _check_positive_width(width) THEN Sampled("ValueError", FALSE, <<>>)
    ELSE SampleFrom(self, 1, [j \in 1..Len(energies) |-> 0],
                    energies, width, smearing)

\* GridDOSData._check_spacing: <<err, warned, current_spacing>>
_check_spacing(self, width) ==
    IF Len(self.e) < 2 THEN <<"IndexError", FALSE, 0>>
    ELSE LET current_spacing == self.e[2] - self.e[1] IN
         <<"ok", width < 2 * current_spacing, current_spacing>>

\* GridDOSData._sample
GridDOSData_sample(self, energies, width, smearing) ==
    LET spacing == _check_spacing(self, width) IN
    IF spacing[1] # "ok" THEN Sampled(spacing[1], FALSE, <<>>)
    ELSE LET base == DOSData_sample(self, energies, width, smearing) IN
         IF base.err # "ok" THEN Sampled(base.err, spacing[2], <<>>)
         ELSE Sampled("ok", spacing[2],
                      [j \in 1..Len(base.val) |-> base.val[j] * spacing[3]])

\* x._sample(energies, width, smearing), dispatched on the class of x
_sample(self, energies, width, smearing) ==
    IF self.cls = "GridDOSData"
    THEN GridDOSData_sample(self, energies, width, smearing)
    ELSE DOSData_sample(self, energies, width, smearing)

\* data.sample of an entity: DOSData and its subclasses define _sample only.
data_sample(self, energies, width, smearing) ==
    Sampled("AttributeError", FALSE, <<>>)

\* The list comprehension of DOSCollection.sample from position i on.
RECURSIVE SampleRows(_, _, _, _, _)
SampleRows(items, i, energies, width, smearing) ==
    IF i > Len(items) THEN Sampled("ok", FALSE, <<>>)
    ELSE LET row == data_sample(items[i], energies, width, smearing) IN
         IF row.err # "ok" THEN row
         ELSE LET rest == SampleRows(items, i + 1, energies, width, smearing) IN
              IF rest.err # "ok" THEN rest
              ELSE Sampled("ok", row.warned \/ rest.warned, <<row.val>> \o rest.val)

\* DOSCollection.sample: np.asarray of the rows
DOSCollection_sample(c, energies, width, smearing) ==
    SampleRows(Iter(c), 1, energies, width, smearing)


\* The entities that are sampled: with no pair and with two pairs, on a grid
\* of one point, and on grids of spacing 1 and 2.
S0 == [cls |-> "RawDOSData", e |-> <<>>, w |-> <<>>, info |-> {}]
S2 == [cls |-> "RawDOSData", e |-> <<0, 2>>, w |-> <<1, 3>>, info |-> {}]
S3 == [cls |-> "GridDOSData", e |-> <<1>>, w |-> <<2>>, info |-> {}]
S4 == [cls |-> "GridDOSData", e |-> <<0, 1, 2>>, w |-> <<1, 2, 1>>, info |-> {}]
S5 == [cls |-> "GridDOSData", e |-> <<0, 2>>, w |-> <<1, 1>>, info |-> {}]

SamplePool(cls) ==
    IF cls = "RawDOSCollection" THEN {S0, S2}
    ELSE IF cls = "GridDOSCollection" THEN {S3, S4}
    ELSE {S2, S5}

\* The arguments of the sampling calls.
SampleEnergies == { <<>>, <<0, 1>> }
SampleWidths == { 0 - 1, 0, 1, 2 }
SampleSmearings == { "Gauss", "GAUSS", "lorentz" }

\* y = x._sample(energies, width, smearing); res.other holds the arguments
\* and res.ref <<a warning was issued, the array returned>>.
Sample(x, energies, width, smearing) ==
    /\ steps < MaxSteps
    /\ LET r == _sample(Ent(x), energies, width, smearing) IN
        res' = Res("_sample", r.err, x, <<energies, width, smearing>>,
                   <<r.warned, r.val>>)
    /\ steps' = steps + 1
    /\ UNCHANGED <<dicts, ents, origin, arrs, colls, made>>

\* y = c.sample(energies, width, smearing)
CollectionSample(c, energies, width, smearing) ==
    /\ steps < MaxSteps
    /\ LET r == DOSCollection_sample(colls[c], energies, width, smearing) IN
        res' = Res("sample", r.err, c, <<energies, width, smearing>>,
                   <<r.warned, r.val>>)
    /\ steps' = steps + 1
    /\ UNCHANGED <<dicts, ents, origin, arrs, colls, made>>

NextSample ==
    \E energies \in SampleEnergies, width \in SampleWidths,
       smearing \in SampleSmearings :
        \/ \E x \in 1..Len(ents) : Sample(x, energies, width, smearing)
        \/ \E c \in 1..Len(colls) : CollectionSample(c, energies, width, smearing)

SpecSample ==
    /\ InitFrom([cls \in CollectionClasses |-> SamplePool(cls)])
    /\ [][NextSample]_vars

\* C22: a call of _sample with a width that is not positive, or with a
\* smearing name that is not 'gauss' in any case, fails with ValueError,
\* whatever entity it is called on and whatever the target energies.
C22_SampleRejects ==
    (res.op = "_sample"
        /\ (res.other[2] <= 0 \/ lower(res.other[3]) # "gauss"))
    => res.err = "ValueError"

\* C23: _sample of a GridDOSData with a positive width and Gauss smearing
\* returns the sample of the base class times the spacing of the stored
\* grid, and has warned exactly when the width is below twice that spacing.
C23_GridSample ==
    (res.op = "_sample" /\ Ent(res.self).cls = "GridDOSData"
        /\ res.other[2] > 0 /\ lower(res.other[3]) = "gauss")
    => LET self == Ent(res.self)
           base == DOSData_sample(self, res.other[1], res.other[2], res.other[3])
           n == Len(self.e)
           spacing == IF n > 1 THEN self.e[2] - self.e[1] ELSE 0
       IN  /\ res.err = "ok"
           /\ res.ref[2] = [j \in 1..Len(base.val) |-> base.val[j] * spacing]
           /\ res.ref[1] <=> (res.other[2] < 2 * spacing)

\* C24: collection.sample with a positive width and Gauss smearing returns
\* len(collection) rows, row i being what _sample of entity i returns for
\* the same arguments.
C24_CollectionSample ==
    (res.op = "sample" /\ res.other[2] > 0 /\ lower(res.other[3]) = "gauss")
    => LET c == colls[res.self]
           items == Iter(c)
       IN  /\ res.err = "ok"
           /\ Len(res.ref[2]) = len(c)
           /\ \A i \in 1..len(c) :
                 res.ref[2][i] =
                     _sample(items[i].val, res.other[1], res.other[2], res.other[3]).val


(***************************************************************************)
(* The calls that only read a collection (SpecReadOnly).                   *)
(***************************************************************************)
\* The energies of the items, all in one set.
AllEnergies(items) ==
    UNION { {items[i].val.e[j] : j \in 1..Len(items[i].val.e)} : i \in 1..Len(items) }

\* DOSCollection.sample_grid with xmin and xmax left out and padding 3: min
\* and max raise ValueError on no entity and on an entity without energies;
\* two points of np.linspace are the two ends.
DOSCollection_sample_grid(c, width, smearing) ==
    LET items == Iter(c) IN
    IF items = <<>> \/ \E i \in 1..Len(items) : items[i].val.e = <<>>
    THEN Sampled("ValueError", FALSE, <<>>)
    ELSE LET es == AllEnergies(items)
             xmin == (CHOOSE a \in es : \A b \in es : a <= b) - 3 * width
             xmax == (CHOOSE a \in es : \A b \in es : a >= b) + 3 * width
         IN  DOSCollection_sample(c, <<xmin, xmax>>, width, smearing)

\* y = c.sample_grid(2, width=width, smearing=smearing)
CollectionSampleGrid(c, width, smearing) ==
    /\ steps < MaxSteps
    /\ LET r == DOSCollection_sample_grid(colls[c], width, smearing) IN
        res' = Res("sample_grid", r.err, c, <<2, width, smearing>>,
                   <<r.warned, r.val>>)
    /\ steps' = steps + 1
    /\ UNCHANGED <<dicts, ents, origin, arrs, colls, made>>

\* The calls are made on the collection the caller built, + with itself,
\* with None and with its first entity as the other operand.
NextReadOnly ==
    \/ CollectionSample(1, <<0, 1>>, 1, "Gauss")
    \/ CollectionSampleGrid(1, 1, "Gauss")
    \/ SumAll(1)
    \/ Total(1)
    \/ \E q \in {{<<"a", "1">>}, {<<"b", "2">>}} : Select(1, q)
    \/ \E q \in {{<<"a", "1">>}, {<<"b", "2">>}} : SelectNot(1, q)
    \/ SumBy(1, {"a"})
    \/ \E other \in {OpNone, OpColl(1)} \cup {OpData(x) : x \in 1..Min(1, Len(ents))} :
            AddCollection(1, other)
    \/ \E item \in {IntIndex(0), IntIndex(MaxLen + 1), Slice(<<>>, <<>>, <<>>)} :
            Index(1, item)
    \/ LenOf(1)
    \/ \E other \in {OpColl(1), OpNone} : Eq(1, other)

SpecReadOnly ==
    /\ InitFrom([cls \in CollectionClasses |-> IndexPool(cls)])
    /\ [][NextReadOnly]_vars

\* C25: a call of sample, sample_grid, sum_all, total, select, select_not,
\* sum_by, +, indexing, len or == on a collection, whether it returns or
\* raises, leaves every collection, every entity and every info dict that
\* existed before the call as it was: the length of every collection and the
\* energies, weights and info of each of its entities are what they were.
C25_ReadOnly ==
    [][ /\ \A c \in 1..Len(colls) : colls'[c] = colls[c]
        /\ \A x \in 1..Len(ents) : ents'[x] = ents[x]
        /\ \A d \in 1..Len(dicts) : dicts'[d] = dicts[d] ]_vars

\* C25 witness: total() has returned the labelled sum of a collection of
\* several entries after an earlier call, and the entries have no label.
C25_Witness ==
    /\ res.op = "total" /\ res.err = "ok" /\ steps = 2
    /\ len(colls[1]) > 1
    /\ <<"label", "Total">> \in InfoOf(res.ref)
    /\ \A j \in 1..len(colls[1]) : <<"label", "Total">> \notin EntryInfos(1)[j]


(***************************************************************************)
(* The errors of summing and of from_data (SpecShape): the collection that *)
(* from_data returned is summed.                                           *)
(***************************************************************************)
NextShape ==
    \/ NextFromData
    \/ \E c \in 1..Len(colls) : SumAll(c)
    \/ \E c \in 1..Len(colls) : Total(c)

SpecShape == InitFromData /\ [][NextShape]_vars

\* sum_all() or total() has been called on a collection without entries.
SumOfNone == res.op \in {"sum_all", "total"} /\ len(colls[res.self]) = 0

\* C26 as stated: sum_all and total on a collection without entries, and
\* from_data with weights that are not 2-D, have no rows or have a row of
\* another length than the energies, fail with ValueError.
C26_ShapeErrors_AsStated ==
    /\ SumOfNone => res.err = "ValueError"
    /\ (res.op = "from_data" /\ BadShape) => res.err = "ValueError"

\* C26: sum_all and total on a collection without entries fail with
\* IndexError.  GridDOSCollection.from_data fails with IndexError on weights
\* that are not 2-D, have no rows or have rows of another length than the
\* energies, and with ValueError on rows of different lengths.
\* DOSCollection.from_data and RawDOSCollection.from_data fail with
\* ValueError on an info of another length than the weights and on a row of
\* another length than the energies, with TypeError on a flat sequence of
\* numbers, and return an empty collection for weights without rows.
C26_ShapeErrors ==
    /\ SumOfNone => res.err = "IndexError"
    /\ (res.op = "from_data" /\ BadShape) =>
        IF ClsArg = "GridDOSCollection"
        THEN res.err = IF Ragged THEN "ValueError" ELSE "IndexError"
        ELSE res.err = IF InfoMismatch THEN "ValueError"
                       ELSE IF WeightsArg[1] = 1 /\ RowsArg # <<>> THEN "TypeError"
                       ELSE IF RowsArg # <<>> THEN "ValueError"
                       ELSE "ok"

\* C26 witness: from_data has returned a DOSCollection without entries for
\* weights without rows, and total() on it has raised IndexError.
C26_Witness ==
    /\ res.op = "total" /\ res.err = "IndexError"
    /\ Len(colls) = 1 /\ made[1].by = "from_data"
    /\ colls[1].cls = "DOSCollection" /\ len(colls[1]) = 0


(***************************************************************************)
(* The groups of sum_by (checked under SpecSumBy).                         *)
(***************************************************************************)
\* C27: for every entity of the collection sum_by was called on, the
\* selection made for its items under the keys is a collection of at least
\* one entity, never None, so that _sum_all_safely does not raise its
\* ValueError.
C27_GroupsNotEmpty ==
    res.op = "sum_by" =>
        LET c == colls[res.self]
            items == Iter(c)
        IN  \A j \in 1..Len(items) :
                LET selection == select(c, Combo(items[j].val, res.other)) IN
                /\ selection.err = "ok"
                /\ selection.cls = c.cls
                /\ len(selection) >= 1

\* C27 witness: sum_by has returned two or more sums for a collection with
\* an entity that has none of the keys.
C27_Witness ==
    /\ res.op = "sum_by" /\ res.err = "ok"
    /\ len(colls[res.ref]) >= 2
    /\ \E j \in 1..len(colls[res.self]) :
            Combo(Entries(res.self)[j], res.other) = {}


(***************************************************************************)
(* The GridDOSCollections that come to exist (SpecGrid): built by the      *)
(* constructor or by from_data, then selected from, summed and added to.   *)
(***************************************************************************)
GridPool(cls) == IF cls = "GridDOSCollection" THEN {G1, G2} ELSE {}

InitGrid ==
    \/ InitFromData
    \/ InitFrom([cls \in CollectionClasses |-> GridPool(cls)])

\* The calls are made on the first and on the latest collection.
NextGrid ==
    \/ \E energies \in EnergyArgs, weights \in WeightArgs, info \in InfoArgs :
            FromData("GridDOSCollection", energies, weights, info)
    \/ \E c \in {1, Len(colls)} \cap (1..Len(colls)) :
        \/ Select(c, {<<"a", "1">>})
        \/ SelectNot(c, {<<"a", "1">>})
        \/ SumBy(c, {"b"})
        \/ \E other \in {OpNone, OpColl(1)} : AddCollection(c, other)

SpecGrid == InitGrid /\ [][NextGrid]_vars

\* The GridDOSCollection c has a row, an info for each row, rows as long as
\* its energies, and gives len(c) entities when iterated.
GridConsistent(c) ==
    /\ Len(colls[c].weights) >= 1
    /\ Len(colls[c].info) = Len(colls[c].weights)
    /\ \A i \in 1..Len(colls[c].weights) :
            Len(colls[c].weights[i]) = Len(colls[c].energies)
    /\ Len(Iter(colls[c])) = len(colls[c])
    /\ \A i \in 1..Len(Iter(colls[c])) : Iter(colls[c])[i].err = "ok"

\* C28: every GridDOSCollection that exists has at least one row, as many
\* entries in its info list as rows, rows of the length of its energies,
\* and yields len() entities when iterated.
C28_GridConsistent ==
    \A c \in 1..Len(colls) :
        colls[c].cls = "GridDOSCollection" => GridConsistent(c)

\* C28 witness: a GridDOSCollection of two rows made by from_data has been
\* summed by a key into a GridDOSCollection.
C28_Witness ==
    /\ Len(colls) >= 2
    /\ made[1].by = "from_data" /\ len(colls[1]) = 2
    /\ res.op = "sum_by" /\ res.err = "ok" /\ res.self = 1
    /\ colls[res.ref].cls = "GridDOSCollection"


(***************************************************************************)
(* Equality as a relation (checked under SpecEq).                          *)
(***************************************************************************)
\* The last call compared collection res.self with a collection.
ComparedCollections == res.op = "eq" /\ res.other.kind = "collection"

\* b == a has the value that a == b had in the last call.
EqSymmetric ==
    ComparedCollections =>
        ((res.ref = 1) <=> binary_eq(res.other, OpColl(res.self)))

\* C29: a collection of any class equals itself, and a == b holds exactly
\* when b == a holds, for collections of the same and of different classes.
C29_EqEquivalence ==
    /\ (ComparedCollections /\ res.other.ref = res.self) => res.ref = 1
    /\ EqSymmetric


(***************************************************************************)
(* Edits after a collection has been made (SpecOwn): the caller builds a   *)
(* collection or has from_data build a GridDOSCollection, selects from it, *)
(* and edits the info of entities and the dicts it passed to from_data.    *)
(***************************************************************************)
\* d[k] = v for a dict d the caller made
SetCallerInfo(d, k, v) ==
    /\ steps < MaxSteps
    /\ dicts' = [dicts EXCEPT ![d] = DictUpdate(@, k, v)]
    /\ res' = Res("set_dict", "ok", d, 0, 0)
    /\ steps' = steps + 1
    /\ UNCHANGED <<ents, arrs, colls, made, origin>>

NextOwn ==
    \/ \E weights \in WeightArgs, info \in InfoArgs :
            FromData("GridDOSCollection", <<0, 1, 2>>, weights, info)
    \/ \E c \in {1} \cap (1..Len(colls)), q \in Queries : Select(c, q)
    \/ \E c \in {1} \cap (1..Len(colls)), q \in Queries : SelectNot(c, q)
    \/ \E x \in 1..Len(ents), k \in EditKeys, v \in EditVals : SetInfo(x, k, v)
    \/ \E x \in 1..Len(ents), k \in EditKeys : DelInfo(x, k)
    \/ \E d \in 1..Len(CallerDicts), k \in EditKeys, v \in EditVals :
            made # <<>> /\ made[1].by = "from_data" /\ SetCallerInfo(d, k, v)

SpecOwn ==
    /\ InitFromData \/ InitFrom([cls \in CollectionClasses |-> IndexPool(cls)])
    /\ [][NextOwn]_vars

\* Collection c is a GridDOSCollection, made by the constructor or by
\* from_data, or was returned by select or select_not.
OwnsItsInfo(c) ==
    \/ colls[c].cls = "GridDOSCollection"
    \/ made[c].by \in {"select", "select_not"}

\* C30: an edit of the info of an entity, or of a dict the caller passed to
\* from_data, leaves the info that every GridDOSCollection and every
\* collection returned by select or select_not reports for its entries as
\* it was.
C30_OwnsInfo ==
    [][ res'.op \in {"set_info", "del_info", "set_dict"} =>
            \A c \in 1..Len(colls) :
                OwnsItsInfo(c) => EntryInfos(c)' = EntryInfos(c) ]_vars

====
